---- MODULE Spec2Model ----
(***************************************************************************)
(* A state-machine model of shadowdhcp: the reservation index, the lease   *)
(* cache, the DHCPv4 and DHCPv6 handlers, the eviction sweep and the       *)
(* reload / replace coordinator.                                           *)
(*                                                                         *)
(* Conventions.  An Option<T> is a sequence: <<>> is None, <<x>> is       *)
(* Some(x).  An Ipv4Addr is its four octets, a MacAddr6 its six bytes, a   *)
(* Duid its bytes.  An Instant is a number of seconds.                     *)
(***************************************************************************)
EXTENDS Integers, Sequences, FiniteSets, TLC

VARIABLES
    heap,        \* the ReservationDb objects alive (Arc targets): id -> DashMap
    published,   \* the ArcSwap<ReservationDb>: the id of the current snapshot
    leases,      \* the LeaseDb: [v4, v6, mac_to_opt82]
    now,         \* the clock read by Instant::now()
    disk,        \* the config directory: [target, temp]
    v4io,        \* the last DHCPv4 datagram handled and what the handler returned
    v6io,        \* the last DHCPv6 datagram handled and what the handler returned
    mgmt,        \* the management thread: its position in handle_client
    sighup,      \* the SIGHUP thread: its position in reload_from_disk
    worker,      \* the v4 worker thread: its position in one request
    cleanup      \* the LeaseDb the cleanup thread owns: self.clone() at spawn

vars == <<heap, published, leases, now, disk, v4io, v6io, mgmt, sighup, worker, cleanup>>

\* the element of a singleton: The({e(x) : x \in {v}}) computes v once and
\* then e from it
The(S) == CHOOSE x \in S : TRUE

----------------------------------------------------------------------------
(* Option<T> *)

None == <<>>

Some(x) == <<x>>

IsSome(o) == o # <<>>

Unwrap(o) == o[1]

----------------------------------------------------------------------------
(* Bounds of the model *)

\* the longest reservation list a snapshot is loaded from
MaxRes == 2

\* the clock stops advancing after this many eviction intervals
MaxTicks == 1

----------------------------------------------------------------------------
(* Addresses and identifiers used as inputs *)

UNSPECIFIED == <<0, 0, 0, 0>>

MacA == <<0, 17, 34, 51, 68, 85>>

MacB == <<17, 34, 51, 68, 85, 102>>

MacC == <<170, 187, 204, 221, 238, 255>>

DuidA == <<170, 187, 204>>

DuidUnknown == <<222, 173, 190, 239>>

Opt82(c, r, s) == [circuit |-> c, remote |-> r, subscriber |-> s]

Opt1837(i, r, e) == [interface |-> i, remote |-> r, enterprise_number |-> e]

Reservation(ip, na, pd, mac, duid, o82, o1837) ==
    [ipv4 |-> ip, ipv6_na |-> na, ipv6_pd |-> pd, mac |-> mac, duid |-> duid,
     option82 |-> o82, option1837 |-> o1837]

Net6(a, l) == [addr |-> a, prefix_len |-> l]

\* keyed by MAC and DUID
ResMac ==
    Reservation(<<10, 0, 0, 100>>, "2001:db8::100", Net6("2001:db8:100::", 56),
                Some(MacA), Some(DuidA), None, None)

\* keyed by Option82 remote-id only
ResRemote ==
    Reservation(<<10, 0, 0, 200>>, "2001:db8::200", Net6("2001:db8:200::", 56),
                None, None, Some(Opt82(None, Some("switch1:port1"), None)), None)

\* keyed by Option82 circuit-id only
ResCircuit ==
    Reservation(<<10, 0, 0, 201>>, "2001:db8::201", Net6("2001:db8:201::", 56),
                None, None, Some(Opt82(Some("eth2:100"), None, None)), None)

\* keyed by MAC and by Option82 (the MAC takes priority as the v4 key)
ResBoth ==
    Reservation(<<10, 0, 0, 50>>, "2001:db8::50", Net6("2001:db8:50::", 56),
                Some(MacC), None, Some(Opt82(None, None, Some("sub:1020"))), None)

\* keyed by Option 18/37; its ipv4 lies outside every configured subnet
ResOut ==
    Reservation(<<172, 16, 0, 5>>, "2001:db8::5", Net6("2001:db8:5::", 56),
                None, None, None, Some(Opt1837(Some("ge-0/0/1"), None, None)))

----------------------------------------------------------------------------
(* Duid.  A text is the sequence of its characters. *)

MAX_DUID_LEN == 130

\* From<Vec<u8>> for Duid: the bytes are taken as they are
Duid_from(value) == value

HexLower == <<"0", "1", "2", "3", "4", "5", "6", "7", "8", "9", "a", "b", "c", "d", "e", "f">>

HexUpper == <<"0", "1", "2", "3", "4", "5", "6", "7", "8", "9", "A", "B", "C", "D", "E", "F">>

\* char::to_digit(16)
to_digit16(c) ==
    IF \E i \in 1..16 : c \in {HexLower[i], HexUpper[i]}
    THEN Some((CHOOSE i \in 1..16 : c \in {HexLower[i], HexUpper[i]}) - 1)
    ELSE None

RECURSIVE radix16(_, _)
radix16(digits, acc) ==
    IF digits = <<>> THEN Some(acc)
    ELSE IF ~IsSome(to_digit16(Head(digits))) THEN None
    ELSE IF acc * 16 + Unwrap(to_digit16(Head(digits))) > 255 THEN None
    ELSE radix16(Tail(digits), acc * 16 + Unwrap(to_digit16(Head(digits))))

\* u8::from_str_radix(src, 16): digits after an optional "+", no overflow
u8_from_str_radix(src) ==
    IF src = <<>> THEN None
    ELSE IF Head(src) = "+" THEN (IF Tail(src) = <<>> THEN None ELSE radix16(Tail(src), 0))
    ELSE radix16(src, 0)

WhiteSpace == {" ", "\t", "\n"}

RECURSIVE trim(_)
trim(text) ==
    IF text = <<>> THEN text
    ELSE IF Head(text) \in WhiteSpace THEN trim(Tail(text))
    ELSE IF text[Len(text)] \in WhiteSpace THEN trim(SubSeq(text, 1, Len(text) - 1))
    ELSE text

\* str::split(sep): the pieces between the separators, empty ones included
split(text, sep) ==
    LET IsSep(i) == text[i] = sep
        cuts == <<0>> \o SelectSeq([i \in DOMAIN text |-> i], IsSep) \o <<Len(text) + 1>>
    IN  [k \in 1..(Len(cuts) - 1) |-> SubSeq(text, cuts[k] + 1, cuts[k + 1] - 1)]

\* TryFrom<&str> for Duid: the separator is the third character; every piece
\* is a byte in hex; at most MAX_DUID_LEN bytes
Duid_try_from(value) ==
    IF Len(trim(value)) < 3 \/ trim(value)[3] \notin {":", "-"} THEN None
    ELSE LET pieces == split(trim(value), trim(value)[3])
             bytes == [i \in DOMAIN pieces |-> u8_from_str_radix(pieces[i])]
         IN  IF \E i \in DOMAIN bytes : ~IsSome(bytes[i]) THEN None
             ELSE IF Len(bytes) > MAX_DUID_LEN THEN None
             ELSE Some([i \in DOMAIN bytes |-> Unwrap(bytes[i])])

----------------------------------------------------------------------------
(* ReservationDb: one DashMap from a tagged key to the shared reservation *)

ReservationDb_new == << >>

Put(map, k, v) == [x \in (DOMAIN map) \cup {k} |-> IF x = k THEN v ELSE map[x]]

Get(map, k) == IF k \in DOMAIN map THEN Some(map[k]) ELSE None

MacKey(mac) == <<"Mac", mac>>

DuidKey(duid) == <<"Duid", duid>>

Opt82Key(opt) == <<"Opt82", opt>>

Opt1837Key(opt) == <<"Opt1837", opt>>

\* insert: under each key the reservation carries, last writer wins
insert_indexed(db, r) ==
    LET d1 == IF IsSome(r.mac) THEN Put(db, MacKey(Unwrap(r.mac)), r) ELSE db
        d2 == IF IsSome(r.duid) THEN Put(d1, DuidKey(Unwrap(r.duid)), r) ELSE d1
    IN  IF IsSome(r.option82) THEN Put(d2, Opt82Key(Unwrap(r.option82)), r) ELSE d2

\* the Option 18/37 key of the index
insert_opt1837(db, r) ==
    IF IsSome(r.option1837) THEN Put(db, Opt1837Key(Unwrap(r.option1837)), r) ELSE db

insert(db, r) == insert_opt1837(insert_indexed(db, r), r)

RECURSIVE load_reservations(_, _)
load_reservations(db, reservations) ==
    IF reservations = <<>> THEN db
    ELSE load_reservations(insert(db, Head(reservations)), Tail(reservations))

\* Borrow<Q> for ReservationKey: a key of another variant than Q panics
borrow_panics(key, variant) == key[1] # variant

\* what a lookup hands back, unless it unwinds
Returned(found) == [panicked |-> FALSE, found |-> found]

Panicked == [panicked |-> TRUE, found |-> None]

\* DashMap::get(q), K: Borrow<Q>: the table is hashed by payload alone, and the
\* probe tests q == k.borrow() on every stored key k it meets whose control
\* byte equals that of q's hash. probed is the set of those keys: the seeds of
\* the table's RandomState decide it, so it is any set of stored keys
DashMap_get(map, q, probed) ==
    IF \E k \in probed : borrow_panics(k, q[1]) THEN Panicked
    ELSE Returned(Get(map, q))

\* the lookups below are DashMap_get on a probe that meets keys of the
\* looked-up variant only
by_mac(db, mac) == Get(db, MacKey(mac))

by_duid(db, duid) == Get(db, DuidKey(duid))

by_opt82(db, opt) == Get(db, Opt82Key(opt))

by_opt1837(db, opt) == Get(db, Opt1837Key(opt))

has_opt82(db, opt) == Opt82Key(opt) \in DOMAIN db

----------------------------------------------------------------------------
(* Option82 extractors *)

remote_only(opt) ==
    IF IsSome(opt.remote) THEN Some(Opt82(None, opt.remote, None)) ELSE None

circuit_only(opt) ==
    IF IsSome(opt.circuit) THEN Some(Opt82(opt.circuit, None, None)) ELSE None

circuit_and_remote(opt) ==
    IF IsSome(opt.circuit) /\ IsSome(opt.remote)
    THEN Some(Opt82(opt.circuit, opt.remote, None))
    ELSE None

subscriber_only(opt) ==
    IF IsSome(opt.subscriber) THEN Some(Opt82(None, None, opt.subscriber)) ELSE None

\* the registry: the function an extractor name stands for
Option82Extractor(name, opt) ==
    CASE name = "remote_only" -> remote_only(opt)
      [] name = "circuit_only" -> circuit_only(opt)
      [] name = "circuit_and_remote" -> circuit_and_remote(opt)
      [] name = "subscriber_only" -> subscriber_only(opt)

----------------------------------------------------------------------------
(* Ipv4Net *)

Pow2(n) == IF n = 0 THEN 1 ELSE IF n = 1 THEN 2 ELSE IF n = 2 THEN 4
           ELSE IF n = 3 THEN 8 ELSE IF n = 4 THEN 16 ELSE IF n = 5 THEN 32
           ELSE IF n = 6 THEN 64 ELSE IF n = 7 THEN 128 ELSE 256

\* how many of the prefix bits fall into octet i (1..4)
PrefixBits(prefix_len, i) ==
    LET b == prefix_len - 8 * (i - 1)
    IN  IF b < 0 THEN 0 ELSE IF b > 8 THEN 8 ELSE b

netmask(net) == [i \in 1..4 |-> 256 - Pow2(8 - PrefixBits(net.prefix_len, i))]

\* a & mask, for the contiguous mask of the leading `bits` bits of an octet
MaskOctet(a, bits) == a - (a % Pow2(8 - bits))

contains(net, ip) ==
    \A i \in 1..4 :
        MaskOctet(ip[i], PrefixBits(net.prefix_len, i))
            = MaskOctet(net.addr[i], PrefixBits(net.prefix_len, i))

----------------------------------------------------------------------------
(* Config *)

TheConfig ==
    [v4_server_id |-> <<10, 0, 0, 1>>,
     dns_v4 |-> << <<8, 8, 8, 8>>, <<8, 8, 4, 4>> >>,
     subnets_v4 |->
        << [net |-> [addr |-> <<192, 168, 1, 0>>, prefix_len |-> 24],
            gateway |-> <<192, 168, 1, 1>>, reply_prefix_len |-> None],
           [net |-> [addr |-> <<10, 0, 0, 0>>, prefix_len |-> 24],
            gateway |-> <<10, 0, 0, 254>>, reply_prefix_len |-> Some(32)] >>,
     v6_server_id |-> <<0, 1, 2, 3>>,
     option82_extractors |-> <<"circuit_and_remote", "remote_only", "circuit_only",
                               "subscriber_only">>,
     option1837_extractors |-> <<"interface_only">>,
     mac_extractors |-> <<"client_linklayer_address", "peer_addr_eui64", "duid">>]

----------------------------------------------------------------------------
(* LeaseDb *)

LeaseDb_new == [v4 |-> << >>, v6 |-> << >>, mac_to_opt82 |-> << >>]

\* an occupied entry only has its last_seen refreshed; a vacant one is filled
insert_mac_option82_binding(ldb, mac, opt, t) ==
    [ldb EXCEPT !.mac_to_opt82 =
        IF mac \in DOMAIN ldb.mac_to_opt82
        THEN [ldb.mac_to_opt82 EXCEPT ![mac].last_seen = t]
        ELSE Put(ldb.mac_to_opt82, mac, [opt82 |-> opt, last_seen |-> t])]

lease_v4(ldb, reservation, mac, option82, valid, t) ==
    LET l1 == IF IsSome(option82)
              THEN insert_mac_option82_binding(ldb, mac, Unwrap(option82), t)
              ELSE ldb
    IN  [l1 EXCEPT !.v4 =
            IF reservation \in DOMAIN l1.v4
            THEN [l1.v4 EXCEPT ![reservation].last_leased = t]
            ELSE Put(l1.v4, reservation,
                     [first_leased |-> t, last_leased |-> t, valid |-> valid,
                      mac |-> mac, option82 |-> option82])]

\* #[derive(Clone)] over three DashMaps: a copy of the entries, not a handle
LeaseDb_clone(ldb) == [v4 |-> ldb.v4, v6 |-> ldb.v6, mac_to_opt82 |-> ldb.mac_to_opt82]

leased_new_v6(ldb, reservation, lease) ==
    [ldb EXCEPT !.v6 = Put(ldb.v6, reservation, lease)]

get_opt82_by_mac(ldb, mac) ==
    IF mac \in DOMAIN ldb.mac_to_opt82 THEN Some(ldb.mac_to_opt82[mac].opt82) ELSE None

\* a sweep without the pass that prunes orphaned bindings
evict_expired_by_age_only(ldb, opt82_max_age, db, t) ==
    LET b1 == [m \in {x \in DOMAIN ldb.mac_to_opt82 :
                        t - ldb.mac_to_opt82[x].last_seen < opt82_max_age}
                 |-> ldb.mac_to_opt82[m]]
        l4 == [r \in {x \in DOMAIN ldb.v4 :
                        t - ldb.v4[x].last_leased < ldb.v4[x].valid} |-> ldb.v4[r]]
        l6 == [r \in {x \in DOMAIN ldb.v6 :
                        t - ldb.v6[x].last_leased < ldb.v6[x].valid} |-> ldb.v6[r]]
    IN  [v4 |-> l4, v6 |-> l6, mac_to_opt82 |-> b1]

\* a sweep that keeps a lease whose age has just reached its valid time
evict_expired_keeps_at_valid(ldb, opt82_max_age, db, t) ==
    LET b1 == [m \in {x \in DOMAIN ldb.mac_to_opt82 :
                        t - ldb.mac_to_opt82[x].last_seen < opt82_max_age}
                 |-> ldb.mac_to_opt82[m]]
        b2 == [m \in {x \in DOMAIN b1 : has_opt82(db, b1[x].opt82)} |-> b1[m]]
        l4 == [r \in {x \in DOMAIN ldb.v4 :
                        t - ldb.v4[x].last_leased <= ldb.v4[x].valid} |-> ldb.v4[r]]
        l6 == [r \in {x \in DOMAIN ldb.v6 :
                        t - ldb.v6[x].last_leased <= ldb.v6[x].valid} |-> ldb.v6[r]]
    IN  [v4 |-> l4, v6 |-> l6, mac_to_opt82 |-> b2]

evict_expired(ldb, opt82_max_age, db, t) ==
    LET b1 == [m \in {x \in DOMAIN ldb.mac_to_opt82 :
                        t - ldb.mac_to_opt82[x].last_seen < opt82_max_age}
                 |-> ldb.mac_to_opt82[m]]
        b2 == [m \in {x \in DOMAIN b1 : has_opt82(db, b1[x].opt82)} |-> b1[m]]
        l4 == [r \in {x \in DOMAIN ldb.v4 :
                        t - ldb.v4[x].last_leased < ldb.v4[x].valid} |-> ldb.v4[r]]
        l6 == [r \in {x \in DOMAIN ldb.v6 :
                        t - ldb.v6[x].last_leased < ldb.v6[x].valid} |-> ldb.v6[r]]
    IN  [v4 |-> l4, v6 |-> l6, mac_to_opt82 |-> b2]

----------------------------------------------------------------------------
(* Reservation::v4_key *)

v4_key(r) ==
    IF IsSome(r.mac) THEN Some(<<"Mac", Unwrap(r.mac)>>)
    ELSE IF IsSome(r.option82) THEN Some(<<"Option82", Unwrap(r.option82)>>)
    ELSE None

----------------------------------------------------------------------------
(* DHCPv4: message helpers *)

ADDRESS_LEASE_TIME == 3600

RENEWAL_TIME == ADDRESS_LEASE_TIME \div 2

REBINDING_TIME == (ADDRESS_LEASE_TIME * 7) \div 8

BROADCAST == 32768

broadcast(flags) == (flags \div BROADCAST) % 2 = 1

set_broadcast(flags) == IF broadcast(flags) THEN flags ELSE flags + BROADCAST

\* the option of a HashMap-backed option set
OptGet(opts, code) == IF code \in DOMAIN opts THEN Some(opts[code]) ELSE None

message_type(msg) == OptGet(msg.opts, "MessageType")

server_id(msg) == OptGet(msg.opts, "ServerIdentifier")

requested_ip_addr(msg) == OptGet(msg.opts, "RequestedIpAddress")

relay_agent_information(msg) == OptGet(msg.opts, "RelayAgentInformation")

\* MacAddr6::try_from(chaddr): chaddr() is the first hlen bytes
MacAddr6_try_from(bytes) == IF Len(bytes) = 6 THEN Some(bytes) ELSE None

\* CompactString::from_utf8(v).ok() of an optional sub-option
from_utf8(sub) ==
    IF IsSome(sub) /\ Unwrap(sub).utf8 THEN Some(Unwrap(sub).text) ELSE None

Match(method, extractor) == [method |-> method, extractor |-> extractor]

\* extractors.iter().find_map(..): the first extractor, in order, that yields a
\* key and finds a reservation under it
RECURSIVE find_map_opt82(_, _, _)
find_map_opt82(db, extractors, option) ==
    IF extractors = <<>> THEN None
    ELSE LET extracted == Option82Extractor(Head(extractors), option)
             found == IF IsSome(extracted) THEN by_opt82(db, Unwrap(extracted)) ELSE None
         IN  IF IsSome(found)
             THEN Some(<<Unwrap(found), Match("option82", Some(Head(extractors)))>>)
             ELSE find_map_opt82(db, Tail(extractors), option)

v4_find_reservation_by_relay_info(db, extractors, relay) ==
    find_map_opt82(db, extractors,
                   Opt82(from_utf8(relay.circuit_id), from_utf8(relay.remote_id),
                         from_utf8(relay.subscriber_id)))

\* a resolver that tries the relay information before the MAC
v4_find_reservation_relay_first(db, extractors, mac_addr, relay) ==
    IF IsSome(relay)
          /\ IsSome(v4_find_reservation_by_relay_info(db, extractors, Unwrap(relay)))
    THEN v4_find_reservation_by_relay_info(db, extractors, Unwrap(relay))
    ELSE IF IsSome(by_mac(db, mac_addr))
         THEN Some(<<Unwrap(by_mac(db, mac_addr)), Match("mac", None)>>)
         ELSE None

v4_find_reservation(db, extractors, mac_addr, relay) ==
    IF IsSome(by_mac(db, mac_addr))
    THEN Some(<<Unwrap(by_mac(db, mac_addr)), Match("mac", None)>>)
    ELSE IF IsSome(relay)
         THEN v4_find_reservation_by_relay_info(db, extractors, Unwrap(relay))
         ELSE None

\* a lookup that falls back on the first configured subnet
find_subnet_or_first(subnets, ip) ==
    IF subnets = <<>> THEN None
    ELSE Some([gateway |-> Head(subnets).gateway,
               subnet_mask |-> netmask(Head(subnets).net)])

\* V4Subnet::reply_netmask: reply_prefix_len if set, the prefix of net otherwise
reply_netmask(subnet) ==
    LET prefix_len == IF IsSome(subnet.reply_prefix_len)
                      THEN Unwrap(subnet.reply_prefix_len)
                      ELSE subnet.net.prefix_len
    IN  IF prefix_len = 0 THEN <<0, 0, 0, 0>>
        ELSE IF prefix_len >= 32 THEN <<255, 255, 255, 255>>
        ELSE [i \in 1..4 |-> 256 - Pow2(8 - PrefixBits(prefix_len, i))]

\* config.subnets_v4.iter().find(|s| s.net.contains(ip)).map(|s| (gateway, netmask))
RECURSIVE find_subnet(_, _)
find_subnet(subnets, ip) ==
    IF subnets = <<>> THEN None
    ELSE IF contains(Head(subnets).net, ip)
         THEN Some([gateway |-> Head(subnets).gateway,
                    subnet_mask |-> netmask(Head(subnets).net)])
         ELSE find_subnet(Tail(subnets), ip)

V4NoResponse(reason, ldb) ==
    [resp |-> [kind |-> "NoResponse", reason |-> reason], leases |-> ldb]

V4Message(reply, reservation, match_info, ldb) ==
    [resp |-> [kind |-> "Message", message |-> reply, reservation |-> Some(reservation),
               reservation_match |-> Some(match_info)],
     leases |-> ldb]

\* a reply that starts from cleared flags instead of the client's
new_reply_clears_flags(msg, yiaddr) ==
    [opcode |-> "BootReply", xid |-> msg.xid, ciaddr |-> UNSPECIFIED, yiaddr |-> yiaddr,
     siaddr |-> UNSPECIFIED, giaddr |-> msg.giaddr, chaddr |-> msg.chaddr, secs |-> 0,
     flags |-> 0, sname |-> "dhcp.shadowinter.net", opts |-> << >>]

\* a reply that leaves the relay's address out
new_reply_without_giaddr(msg, yiaddr) ==
    [opcode |-> "BootReply", xid |-> msg.xid, ciaddr |-> UNSPECIFIED, yiaddr |-> yiaddr,
     siaddr |-> UNSPECIFIED, giaddr |-> UNSPECIFIED, chaddr |-> msg.chaddr, secs |-> 0,
     flags |-> msg.flags, sname |-> "dhcp.shadowinter.net", opts |-> << >>]

\* v4::Message::new_with_id(xid, ciaddr, yiaddr, siaddr, giaddr, chaddr) and the
\* setters both handlers apply before they choose the options
new_reply(msg, yiaddr) ==
    [opcode |-> "BootReply", xid |-> msg.xid, ciaddr |-> UNSPECIFIED, yiaddr |-> yiaddr,
     siaddr |-> UNSPECIFIED, giaddr |-> msg.giaddr, chaddr |-> msg.chaddr, secs |-> 0,
     flags |-> msg.flags, sname |-> "dhcp.shadowinter.net", opts |-> << >>]

\* the options of an OFFER or an ACK without the T1 and T2 timers
lease_opts_without_timers(config, mtype, subnet) ==
    [code \in {"MessageType", "ServerIdentifier", "SubnetMask", "Router",
               "DomainNameServer", "AddressLeaseTime", "End"} |->
        CASE code = "MessageType" -> mtype
          [] code = "ServerIdentifier" -> config.v4_server_id
          [] code = "SubnetMask" -> subnet.subnet_mask
          [] code = "Router" -> <<subnet.gateway>>
          [] code = "DomainNameServer" -> config.dns_v4
          [] code = "AddressLeaseTime" -> ADDRESS_LEASE_TIME
          [] code = "End" -> "End"]

\* the options of an OFFER or an ACK
lease_opts(config, mtype, subnet) ==
    [code \in {"MessageType", "ServerIdentifier", "SubnetMask", "Router",
               "DomainNameServer", "AddressLeaseTime", "Renewal", "Rebinding", "End"} |->
        CASE code = "MessageType" -> mtype
          [] code = "ServerIdentifier" -> config.v4_server_id
          [] code = "SubnetMask" -> subnet.subnet_mask
          [] code = "Router" -> <<subnet.gateway>>
          [] code = "DomainNameServer" -> config.dns_v4
          [] code = "AddressLeaseTime" -> ADDRESS_LEASE_TIME
          [] code = "Renewal" -> RENEWAL_TIME
          [] code = "Rebinding" -> REBINDING_TIME
          [] code = "End" -> "End"]

nak_opts(config) ==
    [code \in {"MessageType", "ServerIdentifier", "End"} |->
        CASE code = "MessageType" -> "Nak"
          [] code = "ServerIdentifier" -> config.v4_server_id
          [] code = "End" -> "End"]

----------------------------------------------------------------------------
(* DHCPv4: handlers *)

\* a handler that answers a client without a reservation from a pool
handle_discover_offers_from_pool(db, ldb, config, msg) ==
    LET mac == MacAddr6_try_from(msg.chaddr) IN
    IF ~IsSome(mac) THEN V4NoResponse("NoValidMac", ldb) ELSE
    LET found == v4_find_reservation(db, config.option82_extractors, Unwrap(mac),
                                     relay_agent_information(msg)) IN
    IF ~IsSome(found)
    THEN [resp |-> [kind |-> "Message", message |-> new_reply(msg, <<10, 0, 0, 77>>),
                    reservation |-> None, reservation_match |-> None],
          leases |-> ldb]
    ELSE
    LET reservation == Unwrap(found)[1]
        match_info == Unwrap(found)[2]
        subnet == find_subnet(config.subnets_v4, reservation.ipv4)
    IN
    IF ~IsSome(subnet) THEN V4NoResponse("NoServerSubnet", ldb) ELSE
    V4Message([new_reply(msg, reservation.ipv4) EXCEPT
                   !.opts = lease_opts(config, "Offer", Unwrap(subnet))],
              reservation, match_info, ldb)

\* a handler that records the lease as soon as it offers the address
handle_discover_records_lease(db, ldb, config, msg) ==
    LET mac == MacAddr6_try_from(msg.chaddr) IN
    IF ~IsSome(mac) THEN V4NoResponse("NoValidMac", ldb) ELSE
    LET found == v4_find_reservation(db, config.option82_extractors, Unwrap(mac),
                                     relay_agent_information(msg)) IN
    IF ~IsSome(found) THEN V4NoResponse("NoReservation", ldb) ELSE
    LET reservation == Unwrap(found)[1]
        match_info == Unwrap(found)[2]
        subnet == find_subnet(config.subnets_v4, reservation.ipv4)
    IN
    IF ~IsSome(subnet) THEN V4NoResponse("NoServerSubnet", ldb) ELSE
    V4Message([new_reply(msg, reservation.ipv4) EXCEPT
                   !.opts = lease_opts(config, "Offer", Unwrap(subnet))],
              reservation, match_info,
              lease_v4(ldb, reservation, Unwrap(mac), None, ADDRESS_LEASE_TIME, 0))

handle_discover(db, ldb, config, msg) ==
    LET mac == MacAddr6_try_from(msg.chaddr) IN
    IF ~IsSome(mac) THEN V4NoResponse("NoValidMac", ldb) ELSE
    LET found == v4_find_reservation(db, config.option82_extractors, Unwrap(mac),
                                     relay_agent_information(msg)) IN
    IF ~IsSome(found) THEN V4NoResponse("NoReservation", ldb) ELSE
    LET reservation == Unwrap(found)[1]
        match_info == Unwrap(found)[2]
        subnet == find_subnet(config.subnets_v4, reservation.ipv4)
    IN
    IF ~IsSome(subnet) THEN V4NoResponse("NoServerSubnet", ldb) ELSE
    V4Message([new_reply(msg, reservation.ipv4) EXCEPT
                   !.opts = lease_opts(config, "Offer", Unwrap(subnet))],
              reservation, match_info, ldb)

\* a classification whose SELECTING arm accepts any server identifier
request_variant_any_server(config, msg) ==
    LET sid == server_id(msg)
        req == requested_ip_addr(msg)
    IN  CASE IsSome(sid) /\ msg.ciaddr = UNSPECIFIED /\ IsSome(req) ->
                [ok |-> TRUE, variant |-> "selecting", ip |-> Unwrap(req)]
          [] ~IsSome(sid) /\ msg.ciaddr = UNSPECIFIED /\ IsSome(req) ->
                [ok |-> TRUE, variant |-> "init-reboot", ip |-> Unwrap(req)]
          [] ~IsSome(sid) /\ ~IsSome(req) /\ msg.ciaddr # UNSPECIFIED ->
                [ok |-> TRUE,
                 variant |-> IF msg.giaddr = UNSPECIFIED THEN "renew" ELSE "rebinding",
                 ip |-> msg.ciaddr]
          [] OTHER -> [ok |-> FALSE, reason |-> "Discarded"]

\* a classification that lost its INIT-REBOOT arm
request_variant_without_init_reboot(config, msg) ==
    LET sid == server_id(msg)
        req == requested_ip_addr(msg)
    IN  CASE IsSome(sid) /\ msg.ciaddr = UNSPECIFIED /\ IsSome(req) ->
                IF Unwrap(sid) # config.v4_server_id
                THEN [ok |-> FALSE, reason |-> "WrongServerId"]
                ELSE [ok |-> TRUE, variant |-> "selecting", ip |-> Unwrap(req)]
          [] ~IsSome(sid) /\ ~IsSome(req) /\ msg.ciaddr # UNSPECIFIED ->
                [ok |-> TRUE,
                 variant |-> IF msg.giaddr = UNSPECIFIED THEN "renew" ELSE "rebinding",
                 ip |-> msg.ciaddr]
          [] OTHER -> [ok |-> FALSE, reason |-> "Discarded"]

\* the four variants of DHCPREQUEST: the address the client asks for, or the
\* reason the request is dropped
request_variant(config, msg) ==
    LET sid == server_id(msg)
        req == requested_ip_addr(msg)
    IN  CASE IsSome(sid) /\ msg.ciaddr = UNSPECIFIED /\ IsSome(req) ->
                IF Unwrap(sid) # config.v4_server_id
                THEN [ok |-> FALSE, reason |-> "WrongServerId"]
                ELSE [ok |-> TRUE, variant |-> "selecting", ip |-> Unwrap(req)]
          [] ~IsSome(sid) /\ msg.ciaddr = UNSPECIFIED /\ IsSome(req) ->
                [ok |-> TRUE, variant |-> "init-reboot", ip |-> Unwrap(req)]
          [] ~IsSome(sid) /\ ~IsSome(req) /\ msg.ciaddr # UNSPECIFIED ->
                [ok |-> TRUE,
                 variant |-> IF msg.giaddr = UNSPECIFIED THEN "renew" ELSE "rebinding",
                 ip |-> msg.ciaddr]
          [] OTHER -> [ok |-> FALSE, reason |-> "Discarded"]

\* the DHCPACK branch: the options, and the lease (with the MAC -> Option82
\* binding when the reservation's v4 key is its Option82)
request_ack(ldb, config, msg, reservation, subnet, mac, t) ==
    LET reply == [new_reply(msg, reservation.ipv4) EXCEPT
                      !.opts = lease_opts(config, "Ack", subnet)]
        key == v4_key(reservation)
        opt82 == IF IsSome(key) /\ Unwrap(key)[1] = "Option82"
                 THEN Some(Unwrap(key)[2]) ELSE None
    IN  [reply |-> reply,
         leases |-> lease_v4(ldb, reservation, mac, opt82, ADDRESS_LEASE_TIME, t)]

\* a DHCPNAK that keeps the yiaddr the reply was created with
request_nak_keeps_yiaddr(config, msg, reservation) ==
    LET r0 == new_reply(msg, reservation.ipv4)
        r1 == IF msg.giaddr # UNSPECIFIED
              THEN [r0 EXCEPT !.flags = set_broadcast(r0.flags)]
              ELSE r0
    IN  [r1 EXCEPT !.opts = nak_opts(config)]

\* a DHCPNAK that never touches the flags
request_nak_never_broadcast(config, msg, reservation) ==
    [new_reply(msg, reservation.ipv4) EXCEPT !.yiaddr = UNSPECIFIED,
                                             !.opts = nak_opts(config)]

\* the DHCPNAK branch
request_nak(config, msg, reservation) ==
    LET r0 == [new_reply(msg, reservation.ipv4) EXCEPT !.yiaddr = UNSPECIFIED]
        r1 == IF msg.giaddr # UNSPECIFIED
              THEN [r0 EXCEPT !.flags = set_broadcast(r0.flags)]
              ELSE r0
    IN  [r1 EXCEPT !.opts = nak_opts(config)]

v4_handle_request(db, ldb, config, msg, t) ==
    LET mac == MacAddr6_try_from(msg.chaddr) IN
    IF ~IsSome(mac) THEN V4NoResponse("NoValidMac", ldb) ELSE
    LET found == v4_find_reservation(db, config.option82_extractors, Unwrap(mac),
                                     relay_agent_information(msg)) IN
    IF ~IsSome(found) THEN V4NoResponse("NoReservation", ldb) ELSE
    LET reservation == Unwrap(found)[1]
        match_info == Unwrap(found)[2]
        subnet == find_subnet(config.subnets_v4, reservation.ipv4)
    IN
    IF ~IsSome(subnet) THEN V4NoResponse("NoServerSubnet", ldb) ELSE
    LET v == request_variant(config, msg) IN
    IF ~v.ok THEN V4NoResponse(v.reason, ldb) ELSE
    IF v.ip = reservation.ipv4
    THEN LET a == request_ack(ldb, config, msg, reservation, Unwrap(subnet),
                              Unwrap(mac), t)
         IN  V4Message(a.reply, reservation, match_info, a.leases)
    ELSE V4Message(request_nak(config, msg, reservation), reservation, match_info, ldb)

v4_handle_message(db, ldb, config, msg, t) ==
    IF msg.opcode # "BootRequest" THEN V4NoResponse("Discarded", ldb) ELSE
    IF ~IsSome(message_type(msg)) THEN V4NoResponse("NoMessageType", ldb) ELSE
    CASE Unwrap(message_type(msg)) = "Discover" -> handle_discover(db, ldb, config, msg)
      [] Unwrap(message_type(msg)) = "Request" ->
            v4_handle_request(db, ldb, config, msg, t)
      [] OTHER -> V4NoResponse("Discarded", ldb)

----------------------------------------------------------------------------
(* DHCPv6: options.  A DhcpOptions is a list kept ordered by option code. *)

VALID_LIFETIME == 7200

PREFERRED_LIFETIME == VALID_LIFETIME \div 2

V6_RENEWAL_TIME == PREFERRED_LIFETIME \div 2

V6_REBINDING_TIME == (PREFERRED_LIFETIME * 4) \div 5

OptionCode(opt) ==
    CASE opt.code = "ClientId" -> 1
      [] opt.code = "ServerId" -> 2
      [] opt.code = "IANA" -> 3
      [] opt.code = "IAAddr" -> 5
      [] opt.code = "Preference" -> 7
      [] opt.code = "RelayMsg" -> 9
      [] opt.code = "StatusCode" -> 13
      [] opt.code = "RapidCommit" -> 14
      [] opt.code = "InterfaceId" -> 18
      [] opt.code = "IAPD" -> 25
      [] opt.code = "IAPrefix" -> 26
      [] opt.code = "RemoteId" -> 37
      [] opt.code = "ClientLinklayerAddress" -> 79

\* DhcpOptions::insert: before the first option whose code is not smaller
RECURSIVE opts_insert(_, _)
opts_insert(opts, opt) ==
    IF opts = <<>> \/ OptionCode(Head(opts)) >= OptionCode(opt)
    THEN <<opt>> \o opts
    ELSE <<Head(opts)>> \o opts_insert(Tail(opts), opt)

\* opts.iter().find_map(..) for one option code: the first such option
RECURSIVE find_opt(_, _)
find_opt(opts, code) ==
    IF opts = <<>> THEN None
    ELSE IF Head(opts).code = code THEN Some(Head(opts))
    ELSE find_opt(Tail(opts), code)

client_id(msg) ==
    IF IsSome(find_opt(msg.opts, "ClientId"))
    THEN Some(Unwrap(find_opt(msg.opts, "ClientId")).id) ELSE None

v6_server_id(msg) ==
    IF IsSome(find_opt(msg.opts, "ServerId"))
    THEN Some(Unwrap(find_opt(msg.opts, "ServerId")).id) ELSE None

rapid_commit(msg) == \E i \in 1..Len(msg.opts) : msg.opts[i].code = "RapidCommit"

ia_na(msg) == find_opt(msg.opts, "IANA")

ia_pd(msg) == find_opt(msg.opts, "IAPD")

\* CompactString::from_utf8 of raw option bytes
bytes_utf8(raw) == IF raw.utf8 THEN Some(raw.text) ELSE None

\* RelayMessage::option1837: every InterfaceId / RemoteId option is read in
\* turn, a later one overriding an earlier one
RECURSIVE option1837_scan(_, _)
option1837_scan(opts, acc) ==
    IF opts = <<>> THEN acc
    ELSE LET o == Head(opts)
             next ==
                CASE o.code = "InterfaceId" ->
                        [acc EXCEPT !.interface = bytes_utf8(o.id)]
                  [] o.code = "RemoteId" /\ IsSome(bytes_utf8(o.id)) ->
                        [acc EXCEPT !.remote = bytes_utf8(o.id),
                                    !.enterprise_number = Some(o.enterprise_number)]
                  [] OTHER -> acc
         IN  option1837_scan(Tail(opts), next)

option1837(relay_msg) ==
    LET o == option1837_scan(relay_msg.opts, Opt1837(None, None, None))
    IN  IF IsSome(o.interface) \/ IsSome(o.remote) THEN Some(o) ELSE None

----------------------------------------------------------------------------
(* Option 18/37 extractors *)

interface_only(opt) ==
    IF IsSome(opt.interface) THEN Some(Opt1837(opt.interface, None, None)) ELSE None

v6_remote_only(opt) ==
    IF IsSome(opt.remote) THEN Some(Opt1837(None, opt.remote, None)) ELSE None

interface_and_remote(opt) ==
    IF IsSome(opt.interface) /\ IsSome(opt.remote)
    THEN Some(Opt1837(opt.interface, opt.remote, None)) ELSE None

remote_with_enterprise(opt) ==
    IF IsSome(opt.remote) /\ IsSome(opt.enterprise_number)
    THEN Some(Opt1837(None, opt.remote, opt.enterprise_number)) ELSE None

all_fields(opt) ==
    IF IsSome(opt.interface) \/ IsSome(opt.remote) THEN Some(opt) ELSE None

Option1837Extractor(name, opt) ==
    CASE name = "interface_only" -> interface_only(opt)
      [] name = "remote_only" -> v6_remote_only(opt)
      [] name = "interface_and_remote" -> interface_and_remote(opt)
      [] name = "remote_with_enterprise" -> remote_with_enterprise(opt)
      [] name = "all_fields" -> all_fields(opt)

----------------------------------------------------------------------------
(* MAC extractors *)

\* the first ClientLinklayerAddress option (RFC 6939) that holds 6 bytes
RECURSIVE extract_client_linklayer_address(_)
extract_client_linklayer_address(opts) ==
    IF opts = <<>> THEN None
    ELSE IF Head(opts).code = "ClientLinklayerAddress" /\ Len(Head(opts).address) = 6
         THEN Some(Head(opts).address)
         ELSE extract_client_linklayer_address(Tail(opts))

\* b ^ 0x02
FlipUniversalLocal(b) == IF (b \div 2) % 2 = 1 THEN b - 2 ELSE b + 2

\* the MAC a modified-EUI-64 link-local peer address was built from
extract_peer_addr_eui64(relay_msg) ==
    LET o == relay_msg.peer_addr IN
    IF o[1] # 254 \/ (o[2] \div 64) # 2 THEN None
    ELSE IF o[12] # 255 \/ o[13] # 254 THEN None
    ELSE Some(<<FlipUniversalLocal(o[9]), o[10], o[11], o[14], o[15], o[16]>>)

\* the link-layer address of an Ethernet DUID-LLT (type 1) or DUID-LL (type 3)
extract_duid(msg) ==
    LET cid == client_id(msg) IN
    IF ~IsSome(cid) THEN None ELSE
    LET d == Unwrap(cid) IN
    IF Len(d) < 4 THEN None
    ELSE IF d[3] * 256 + d[4] # 1 THEN None
    ELSE IF d[1] * 256 + d[2] = 1
         THEN IF Len(d) < 14 THEN None ELSE Some(SubSeq(d, 9, 14))
    ELSE IF d[1] * 256 + d[2] = 3
         THEN IF Len(d) < 10 THEN None ELSE Some(SubSeq(d, 5, 10))
    ELSE None

MacExtractor_extract(name, relay_msg, msg) ==
    CASE name = "client_linklayer_address" ->
            extract_client_linklayer_address(relay_msg.opts)
      [] name = "peer_addr_eui64" -> extract_peer_addr_eui64(relay_msg)
      [] name = "duid" -> extract_duid(msg)

----------------------------------------------------------------------------
(* DHCPv6: the resolver *)

RECURSIVE find_map_opt1837(_, _, _)
find_map_opt1837(db, extractors, option) ==
    IF extractors = <<>> THEN None
    ELSE LET extracted == Option1837Extractor(Head(extractors), option)
             found == IF IsSome(extracted) THEN by_opt1837(db, Unwrap(extracted))
                      ELSE None
         IN  IF IsSome(found)
             THEN Some(<<Unwrap(found), Match("option1837", Some(Head(extractors)))>>)
             ELSE find_map_opt1837(db, Tail(extractors), option)

v6_find_reservation_by_relay_info(db, extractors, relay_msg) ==
    IF IsSome(option1837(relay_msg))
    THEN find_map_opt1837(db, extractors, Unwrap(option1837(relay_msg)))
    ELSE None

\* priorities 3 and 4: for each MAC extractor in order, the reservation keyed by
\* the MAC, else the one keyed by the Option82 the lease cache binds to the MAC
RECURSIVE find_by_mac_extractors(_, _, _, _, _)
find_by_mac_extractors(db, ldb, mac_extractors, relay_msg, msg) ==
    IF mac_extractors = <<>> THEN None
    ELSE LET name == Head(mac_extractors)
             mac == MacExtractor_extract(name, relay_msg, msg)
             direct == IF IsSome(mac) THEN by_mac(db, Unwrap(mac)) ELSE None
             opt82 == IF IsSome(mac) THEN get_opt82_by_mac(ldb, Unwrap(mac)) ELSE None
             fallback == IF IsSome(opt82) THEN by_opt82(db, Unwrap(opt82)) ELSE None
         IN  IF IsSome(direct) THEN Some(<<Unwrap(direct), Match("mac", Some(name))>>)
             ELSE IF IsSome(fallback)
                  THEN Some(<<Unwrap(fallback), Match("option82", Some("lease_fallback"))>>)
                  ELSE find_by_mac_extractors(db, ldb, Tail(mac_extractors), relay_msg, msg)

\* a resolver that tries by_mac for every MAC extractor before it turns to the
\* lease cache for any of them
v6_find_reservation_macs_first(db, ldb, opt1837_extractors, mac_extractors, relay, msg, cid) ==
    LET relay_msg == relay
        mac(i) == MacExtractor_extract(mac_extractors[i], relay_msg, msg)
        opt82(i) == get_opt82_by_mac(ldb, Unwrap(mac(i)))
        direct == {i \in 1..Len(mac_extractors) :
                      IsSome(mac(i)) /\ IsSome(by_mac(db, Unwrap(mac(i))))}
        fallback == {i \in 1..Len(mac_extractors) :
                      /\ IsSome(mac(i))
                      /\ IsSome(opt82(i))
                      /\ IsSome(by_opt82(db, Unwrap(opt82(i))))}
        first(hits) == CHOOSE i \in hits : \A j \in hits : i <= j
    IN  IF IsSome(by_duid(db, cid))
        THEN Some(<<Unwrap(by_duid(db, cid)), Match("duid", None)>>)
        ELSE IF IsSome(v6_find_reservation_by_relay_info(db, opt1837_extractors, relay_msg))
        THEN v6_find_reservation_by_relay_info(db, opt1837_extractors, relay_msg)
        ELSE IF direct # {}
        THEN Some(<<Unwrap(by_mac(db, Unwrap(mac(first(direct))))),
                    Match("mac", Some(mac_extractors[first(direct)]))>>)
        ELSE IF fallback # {}
        THEN Some(<<Unwrap(by_opt82(db, Unwrap(opt82(first(fallback))))),
                    Match("option82", Some("lease_fallback"))>>)
        ELSE None

v6_find_reservation(db, ldb, opt1837_extractors, mac_extractors, relay_msg, msg, cid) ==
    IF IsSome(by_duid(db, cid))
    THEN Some(<<Unwrap(by_duid(db, cid)), Match("duid", None)>>)
    ELSE IF IsSome(v6_find_reservation_by_relay_info(db, opt1837_extractors, relay_msg))
         THEN v6_find_reservation_by_relay_info(db, opt1837_extractors, relay_msg)
         ELSE find_by_mac_extractors(db, ldb, mac_extractors, relay_msg, msg)

----------------------------------------------------------------------------
(* DHCPv6: handlers *)

V6NoResponse(reason, ldb) ==
    [resp |-> [kind |-> "NoResponse", reason |-> reason], leases |-> ldb]

V6Message(reply, reservation, match_info, ldb) ==
    [resp |-> [kind |-> "Message", message |-> reply, reservation |-> reservation,
               reservation_match |-> match_info],
     leases |-> ldb]

\* a v6 lease recorded with the DHCPv4 lease time
new_lease_v6_v4_time(cid, t) ==
    [first_leased |-> t, last_leased |-> t, valid |-> ADDRESS_LEASE_TIME, duid |-> cid,
     mac |-> None]

new_lease_v6(cid, t) ==
    [first_leased |-> t, last_leased |-> t, valid |-> VALID_LIFETIME, duid |-> cid,
     mac |-> None]

\* an IA_NA built from a reservation under an IAID of the server's own choosing
reserved_ia_na_own_iaid(iana, reservation) ==
    [code |-> "IANA", id |-> 0, t1 |-> V6_RENEWAL_TIME, t2 |-> V6_REBINDING_TIME,
     opts |-> << [code |-> "IAAddr", addr |-> reservation.ipv6_na,
                  preferred_life |-> PREFERRED_LIFETIME, valid_life |-> VALID_LIFETIME,
                  opts |-> << >>] >>]

\* the IA_NA of a reply built from a reservation: the client's IAID, the reserved
\* address, fresh lifetimes
reserved_ia_na(iana, reservation) ==
    [code |-> "IANA", id |-> iana.id, t1 |-> V6_RENEWAL_TIME, t2 |-> V6_REBINDING_TIME,
     opts |-> << [code |-> "IAAddr", addr |-> reservation.ipv6_na,
                  preferred_life |-> PREFERRED_LIFETIME, valid_life |-> VALID_LIFETIME,
                  opts |-> << >>] >>]

\* an IA_PD built from a reservation with the DHCPv4 timers
reserved_ia_pd_v4_timers(iapd, reservation) ==
    [code |-> "IAPD", id |-> iapd.id, t1 |-> RENEWAL_TIME, t2 |-> REBINDING_TIME,
     opts |-> << [code |-> "IAPrefix", preferred_lifetime |-> PREFERRED_LIFETIME,
                  valid_lifetime |-> VALID_LIFETIME,
                  prefix_len |-> reservation.ipv6_pd.prefix_len,
                  prefix_ip |-> reservation.ipv6_pd.addr, opts |-> << >>] >>]

reserved_ia_pd(iapd, reservation) ==
    [code |-> "IAPD", id |-> iapd.id, t1 |-> V6_RENEWAL_TIME, t2 |-> V6_REBINDING_TIME,
     opts |-> << [code |-> "IAPrefix", preferred_lifetime |-> PREFERRED_LIFETIME,
                  valid_lifetime |-> VALID_LIFETIME,
                  prefix_len |-> reservation.ipv6_pd.prefix_len,
                  prefix_ip |-> reservation.ipv6_pd.addr, opts |-> << >>] >>]

\* Solicit and Request insert the IA_PD first, then the IA_NA
ia_pd_then_na(opts, msg, reservation) ==
    LET o1 == IF IsSome(ia_pd(msg))
              THEN opts_insert(opts, reserved_ia_pd(Unwrap(ia_pd(msg)), reservation))
              ELSE opts
    IN  IF IsSome(ia_na(msg))
        THEN opts_insert(o1, reserved_ia_na(Unwrap(ia_na(msg)), reservation))
        ELSE o1

\* Renew and Rebind insert the IA_NA first, then the IA_PD
ia_na_then_pd(opts, msg, reservation) ==
    LET o1 == IF IsSome(ia_na(msg))
              THEN opts_insert(opts, reserved_ia_na(Unwrap(ia_na(msg)), reservation))
              ELSE opts
    IN  IF IsSome(ia_pd(msg))
        THEN opts_insert(o1, reserved_ia_pd(Unwrap(ia_pd(msg)), reservation))
        ELSE o1

server_and_client_id(opts, config, cid) ==
    opts_insert(opts_insert(opts, [code |-> "ServerId", id |-> config.v6_server_id]),
                [code |-> "ClientId", id |-> cid])

NoBindingStatus ==
    [code |-> "StatusCode", status |-> "NoBinding", msg |-> "No binding for this IA"]

\* an IA that gets the NoBinding status but keeps the lifetimes the client sent
no_binding_ia_keeps_lifetimes(ia) ==
    [ia EXCEPT !.opts = opts_insert(ia.opts, NoBindingStatus)]

\* an IA of the request with the lifetimes of its addresses (IA_NA) or prefixes
\* (IA_PD) zeroed and a NoBinding status inserted into it
no_binding_ia(ia) ==
    LET zeroed ==
            [i \in 1..Len(ia.opts) |->
                IF ia.code = "IANA" /\ ia.opts[i].code = "IAAddr"
                THEN [ia.opts[i] EXCEPT !.valid_life = 0, !.preferred_life = 0]
                ELSE IF ia.code = "IAPD" /\ ia.opts[i].code = "IAPrefix"
                THEN [ia.opts[i] EXCEPT !.valid_lifetime = 0, !.preferred_lifetime = 0]
                ELSE ia.opts[i]]
    IN  [ia EXCEPT !.opts = opts_insert(zeroed, NoBindingStatus)]

\* for opt in msg.opts().iter(): every IA_NA and IA_PD of the request
RECURSIVE no_binding_opts(_, _)
no_binding_opts(reply_opts, opts) ==
    IF opts = <<>> THEN reply_opts
    ELSE no_binding_opts(
            IF Head(opts).code \in {"IANA", "IAPD"}
            THEN opts_insert(reply_opts, no_binding_ia(Head(opts)))
            ELSE reply_opts,
            Tail(opts))

\* a Solicit handler that puts Preference(255) into whatever it answers
handle_solicit_always_preference(config, db, ldb, msg, relay_msg, t) ==
    IF ~IsSome(client_id(msg)) THEN V6NoResponse("NoClientId", ldb) ELSE
    IF IsSome(v6_server_id(msg)) THEN V6NoResponse("UnexpectedServerId", ldb) ELSE
    LET cid == Unwrap(client_id(msg))
        msg_type == IF rapid_commit(msg) THEN "Reply" ELSE "Advertise"
        found == v6_find_reservation(db, ldb, config.option1837_extractors,
                                     config.mac_extractors, relay_msg, msg, cid)
    IN
    IF ~IsSome(found) THEN V6NoResponse("NoReservation", ldb) ELSE
    LET reservation == Unwrap(found)[1]
        o0 == IF msg_type = "Reply"
              THEN opts_insert(<< [code |-> "RapidCommit"] >>,
                               [code |-> "Preference", value |-> 255])
              ELSE << [code |-> "Preference", value |-> 255] >>
        o1 == ia_pd_then_na(o0, msg, reservation)
    IN  V6Message([msg_type |-> msg_type, xid |-> msg.xid,
                   opts |-> server_and_client_id(o1, config, cid)],
                  Some(reservation), Some(Unwrap(found)[2]),
                  leased_new_v6(ldb, reservation, new_lease_v6(cid, t)))

handle_solicit(config, db, ldb, msg, relay_msg, t) ==
    IF ~IsSome(client_id(msg)) THEN V6NoResponse("NoClientId", ldb) ELSE
    IF IsSome(v6_server_id(msg)) THEN V6NoResponse("UnexpectedServerId", ldb) ELSE
    LET cid == Unwrap(client_id(msg))
        msg_type == IF rapid_commit(msg) THEN "Reply" ELSE "Advertise"
        found == v6_find_reservation(db, ldb, config.option1837_extractors,
                                     config.mac_extractors, relay_msg, msg, cid)
    IN
    IF ~IsSome(found) THEN V6NoResponse("NoReservation", ldb) ELSE
    LET reservation == Unwrap(found)[1]
        o0 == IF msg_type = "Reply" THEN << [code |-> "RapidCommit"] >>
              ELSE << [code |-> "Preference", value |-> 255] >>
        o1 == ia_pd_then_na(o0, msg, reservation)
    IN  V6Message([msg_type |-> msg_type, xid |-> msg.xid,
                   opts |-> server_and_client_id(o1, config, cid)],
                  Some(reservation), Some(Unwrap(found)[2]),
                  leased_new_v6(ldb, reservation, new_lease_v6(cid, t)))

v6_handle_request(config, db, ldb, msg, relay_msg, t) ==
    IF ~IsSome(client_id(msg)) THEN V6NoResponse("NoClientId", ldb) ELSE
    IF ~IsSome(v6_server_id(msg)) THEN V6NoResponse("NoServerId", ldb) ELSE
    IF Unwrap(v6_server_id(msg)) # config.v6_server_id
    THEN V6NoResponse("WrongServerId", ldb) ELSE
    LET cid == Unwrap(client_id(msg))
        found == v6_find_reservation(db, ldb, config.option1837_extractors,
                                     config.mac_extractors, relay_msg, msg, cid)
    IN
    IF ~IsSome(found) THEN V6NoResponse("NoReservation", ldb) ELSE
    LET reservation == Unwrap(found)[1]
    IN  V6Message([msg_type |-> "Reply", xid |-> msg.xid,
                   opts |-> server_and_client_id(
                                ia_pd_then_na(<< >>, msg, reservation), config, cid)],
                  Some(reservation), Some(Unwrap(found)[2]),
                  leased_new_v6(ldb, reservation, new_lease_v6(cid, t)))

\* what Renew and Rebind do once the header checks are passed
renew_reply(config, db, ldb, msg, relay_msg, t) ==
    LET cid == Unwrap(client_id(msg))
        found == v6_find_reservation(db, ldb, config.option1837_extractors,
                                     config.mac_extractors, relay_msg, msg, cid)
    IN
    IF IsSome(found)
    THEN LET reservation == Unwrap(found)[1]
             o1 == ia_na_then_pd(<< >>, msg, reservation)
         IN  V6Message([msg_type |-> "Reply", xid |-> msg.xid,
                        opts |-> server_and_client_id(o1, config, cid)],
                       Some(reservation), Some(Unwrap(found)[2]),
                       IF Len(o1) > 0
                       THEN leased_new_v6(ldb, reservation, new_lease_v6(cid, t))
                       ELSE ldb)
    ELSE V6Message([msg_type |-> "Reply", xid |-> msg.xid,
                    opts |-> server_and_client_id(
                                 no_binding_opts(<< >>, msg.opts), config, cid)],
                   None, None, ldb)

\* a Renew handler that answers whatever ServerId the client names
handle_renew_any_server(config, db, ldb, msg, relay_msg, t) ==
    IF ~IsSome(client_id(msg)) THEN V6NoResponse("NoClientId", ldb) ELSE
    IF ~IsSome(v6_server_id(msg)) THEN V6NoResponse("NoServerId", ldb) ELSE
    renew_reply(config, db, ldb, msg, relay_msg, t)

handle_renew(config, db, ldb, msg, relay_msg, t) ==
    IF ~IsSome(client_id(msg)) THEN V6NoResponse("NoClientId", ldb) ELSE
    IF ~IsSome(v6_server_id(msg)) THEN V6NoResponse("NoServerId", ldb) ELSE
    IF Unwrap(v6_server_id(msg)) # config.v6_server_id
    THEN V6NoResponse("WrongServerId", ldb) ELSE
    renew_reply(config, db, ldb, msg, relay_msg, t)

\* a Rebind handler that checks the ServerId as Renew does
handle_rebind_as_renew(config, db, ldb, msg, relay_msg, t) ==
    handle_renew(config, db, ldb, msg, relay_msg, t)

\* a Rebind handler that drops a message naming another server
handle_rebind_rejects_other_server(config, db, ldb, msg, relay_msg, t) ==
    IF ~IsSome(client_id(msg)) THEN V6NoResponse("NoClientId", ldb) ELSE
    IF IsSome(v6_server_id(msg)) /\ Unwrap(v6_server_id(msg)) # config.v6_server_id
    THEN V6NoResponse("WrongServerId", ldb) ELSE
    renew_reply(config, db, ldb, msg, relay_msg, t)

handle_rebind(config, db, ldb, msg, relay_msg, t) ==
    IF ~IsSome(client_id(msg)) THEN V6NoResponse("NoClientId", ldb) ELSE
    renew_reply(config, db, ldb, msg, relay_msg, t)

v6_handle_message(config, db, ldb, msg, relay_msg, t) ==
    CASE msg.msg_type = "Solicit" -> handle_solicit(config, db, ldb, msg, relay_msg, t)
      [] msg.msg_type = "Request" -> v6_handle_request(config, db, ldb, msg, relay_msg, t)
      [] msg.msg_type = "Renew" -> handle_renew(config, db, ldb, msg, relay_msg, t)
      [] msg.msg_type = "Rebind" -> handle_rebind(config, db, ldb, msg, relay_msg, t)
      [] OTHER -> V6NoResponse("Discarded", ldb)

----------------------------------------------------------------------------
(* The reservation files and the objects built from them *)

Pool == <<ResMac, ResRemote, ResCircuit, ResBoth, ResOut>>

\* the files of at most n reservations taken from pool[i..]; the reservations
\* of a pool share no key, so the order of a file's entries does not matter
\* and one order stands for all
RECURSIVE ListsFrom(_, _, _)
ListsFrom(pool, i, n) ==
    IF i > Len(pool) \/ n = 0 THEN {<<>>}
    ELSE ListsFrom(pool, i + 1, n)
            \cup {<<pool[i]>> \o l : l \in ListsFrom(pool, i + 1, n - 1)}

ReservationLists == ListsFrom(Pool, 1, MaxRes)

\* a ReservationDb on the heap: its map, and the list it is being loaded with
DbObject(index, source) == [index |-> index, source |-> source]

\* Arc: an object lives as long as somebody holds a reference to it
Collect(h, refs) == [i \in (DOMAIN h) \cap refs |-> h[i]]

\* Arc::new: the first free address
NewId(h) == CHOOSE i \in 1..(Cardinality(DOMAIN h) + 1) : i \notin DOMAIN h

\* the snapshot a handler gets from reservations.load()
Db == heap[published].index

Idle == [pc |-> "idle"]

----------------------------------------------------------------------------
(* DHCPv4 datagrams *)

Text(t) == Some([utf8 |-> TRUE, text |-> t])

RelayInfo(c, r, s) == [circuit_id |-> c, remote_id |-> r, subscriber_id |-> s]

RelayRemote == RelayInfo(None, Text("switch1:port1"), None)

RelayCircuit == RelayInfo(Text("eth2:100"), None, None)

RelaySubscriber == RelayInfo(None, None, Text("sub:1020"))

\* a remote-id that is not UTF-8
RelayBinary == RelayInfo(None, Some([utf8 |-> FALSE, text |-> "switch1:port1"]), None)

RelayAddr == <<10, 0, 0, 254>>

OtherServer == <<10, 9, 9, 9>>

\* the options a client sends: each is present or absent
V4Opts(mt, sid, req, relay) ==
    [code \in (IF IsSome(mt) THEN {"MessageType"} ELSE {})
              \cup (IF IsSome(sid) THEN {"ServerIdentifier"} ELSE {})
              \cup (IF IsSome(req) THEN {"RequestedIpAddress"} ELSE {})
              \cup (IF IsSome(relay) THEN {"RelayAgentInformation"} ELSE {}) |->
        CASE code = "MessageType" -> Unwrap(mt)
          [] code = "ServerIdentifier" -> Unwrap(sid)
          [] code = "RequestedIpAddress" -> Unwrap(req)
          [] code = "RelayAgentInformation" -> Unwrap(relay)]

V4Datagram(opcode, chaddr, giaddr, flags, ciaddr, opts) ==
    [opcode |-> opcode, xid |-> 7, ciaddr |-> ciaddr, yiaddr |-> UNSPECIFIED,
     siaddr |-> UNSPECIFIED, giaddr |-> giaddr, chaddr |-> chaddr, secs |-> 1,
     flags |-> flags, sname |-> "", opts |-> opts]

\* who sends, and what the relay adds
V4Senders == {<<MacA, None>>, <<MacB, None>>, <<MacB, Some(RelayRemote)>>}

V4Addrs == {ResMac.ipv4, ResRemote.ipv4}

\* DHCPREQUESTs with every combination of the fields the handler looks at
V4RequestSpace ==
    {V4Datagram("BootRequest", who[1], gi, fl, ci,
                V4Opts(Some("Request"), sid, req, who[2])) :
        who \in V4Senders, gi \in {UNSPECIFIED, RelayAddr}, fl \in {0, BROADCAST},
        ci \in {UNSPECIFIED, ResMac.ipv4},
        sid \in {None, Some(TheConfig.v4_server_id), Some(OtherServer)},
        req \in {None} \cup {Some(a) : a \in V4Addrs}}

V4DiscoverSpace ==
    {V4Datagram("BootRequest", who[1], gi, fl, UNSPECIFIED,
                V4Opts(Some("Discover"), None, None, who[2])) :
        who \in V4Senders, gi \in {UNSPECIFIED, RelayAddr}, fl \in {0, BROADCAST}}

\* what the handler drops before it looks anything up
V4Malformed ==
    {V4Datagram("BootReply", MacA, UNSPECIFIED, 0, UNSPECIFIED,
                V4Opts(Some("Request"), None, Some(ResMac.ipv4), None)),
     V4Datagram("BootRequest", MacA, UNSPECIFIED, 0, UNSPECIFIED,
                V4Opts(None, None, None, None)),
     V4Datagram("BootRequest", MacA, UNSPECIFIED, 0, UNSPECIFIED,
                V4Opts(Some("Decline"), None, Some(ResMac.ipv4), None)),
     V4Datagram("BootRequest", <<1, 2, 3>>, UNSPECIFIED, 0, UNSPECIFIED,
                V4Opts(Some("Request"), None, Some(ResMac.ipv4), None)),
     V4Datagram("BootRequest", <<1, 2, 3>>, UNSPECIFIED, 0, UNSPECIFIED,
                V4Opts(Some("Discover"), None, None, None))}

\* INIT-REBOOT requests of one client, MacB, seen behind different relay
\* information, each asking for the address of the reservation the relay
\* information selects
V4Roaming ==
    {V4Datagram("BootRequest", MacB, RelayAddr, 0, UNSPECIFIED,
                V4Opts(Some("Request"), None, Some(x[2].ipv4), Some(x[1]))) :
        x \in {<<RelayRemote, ResRemote>>, <<RelayCircuit, ResCircuit>>,
               <<RelaySubscriber, ResBoth>>, <<RelayBinary, ResRemote>>}}

----------------------------------------------------------------------------
(* DHCPv6 datagrams: a RelayForw and the client message inside it *)

RECURSIVE V6Opts(_)
V6Opts(list) ==
    IF list = <<>> THEN <<>> ELSE opts_insert(V6Opts(Tail(list)), Head(list))

V6Inner(msg_type, list) == [msg_type |-> msg_type, xid |-> 9, opts |-> V6Opts(list)]

RelayForw(peer_addr, list) ==
    [msg_type |-> "RelayForw", hop_count |-> 0, link_addr |-> "2001:db8::1",
     peer_addr |-> peer_addr, opts |-> V6Opts(list)]

ClientIdOpt(d) == [code |-> "ClientId", id |-> d]

ServerIdOpt(d) == [code |-> "ServerId", id |-> d]

\* an IA_NA and an IA_PD as a client sends them, with what it holds or hopes for
ClientIaNa(id, addr) ==
    [code |-> "IANA", id |-> id, t1 |-> 0, t2 |-> 0,
     opts |-> << [code |-> "IAAddr", addr |-> addr, preferred_life |-> PREFERRED_LIFETIME,
                  valid_life |-> VALID_LIFETIME, opts |-> << >>] >>]

ClientIaPd(id, prefix) ==
    [code |-> "IAPD", id |-> id, t1 |-> V6_RENEWAL_TIME, t2 |-> V6_REBINDING_TIME,
     opts |-> << [code |-> "IAPrefix", preferred_lifetime |-> PREFERRED_LIFETIME,
                  valid_lifetime |-> VALID_LIFETIME, prefix_len |-> prefix.prefix_len,
                  prefix_ip |-> prefix.addr, opts |-> << >>] >>]

\* the IA options of a client message: none, one of each, or two IA_NA and an IA_PD
V6IaChoices ==
    {<<>>,
     <<ClientIaNa(1, "2001:db8::1234"), ClientIaPd(2, Net6("2001:db8:1234::", 56))>>,
     <<ClientIaNa(1, "2001:db8::1234"), ClientIaNa(3, "2001:db8::5678"),
       ClientIaPd(2, Net6("2001:db8:1234::", 56))>>}

LinkLayer(mac) == [code |-> "ClientLinklayerAddress", address |-> mac]

InterfaceId(t) == [code |-> "InterfaceId", id |-> [utf8 |-> TRUE, text |-> t]]

\* a peer address that is no EUI-64 link-local address, and the link-local
\* address a client with MacB forms
PeerGlobal == <<32, 1, 13, 184, 0, 0, 0, 0, 0, 0, 0, 0, 0, 0, 0, 9>>

PeerOfMacB == <<254, 128, 0, 0, 0, 0, 0, 0, 19, 34, 51, 255, 254, 68, 85, 102>>

\* a DUID-LL that carries MacB
DuidLLOfMacB == <<0, 3, 0, 1>> \o MacB

OtherServerDuid == <<9, 9, 9>>

\* what the relay tells about the client
V6Relays ==
    {RelayForw(PeerGlobal, <<>>),
     RelayForw(PeerGlobal, <<LinkLayer(MacB)>>),
     RelayForw(PeerOfMacB, <<>>),
     RelayForw(PeerGlobal, <<InterfaceId("ge-0/0/1")>>),
     RelayForw(PeerGlobal, <<InterfaceId("ge-0/0/1"), LinkLayer(MacB)>>),
     RelayForw(PeerOfMacB, <<LinkLayer(MacA)>>)}

RelayMsg(kind, msg) == [code |-> "RelayMsg", data |-> [kind |-> kind, msg |-> msg]]

V6Datagram(relay, msg_type, cid, sid, rapid, ias) ==
    [relay EXCEPT !.opts =
        opts_insert(relay.opts,
            RelayMsg("Message",
                V6Inner(msg_type,
                     (IF IsSome(cid) THEN <<ClientIdOpt(Unwrap(cid))>> ELSE <<>>)
                        \o (IF IsSome(sid) THEN <<ServerIdOpt(Unwrap(sid))>> ELSE <<>>)
                        \o (IF rapid THEN << [code |-> "RapidCommit"] >> ELSE <<>>)
                        \o ias)))]

\* every message type with every combination of the identifiers in its header
V6HeaderSpace ==
    {V6Datagram(RelayForw(PeerGlobal, <<LinkLayer(MacB)>>), t, cid, sid, FALSE, ias) :
        t \in {"Solicit", "Request", "Renew", "Rebind", "Release"},
        cid \in {None, Some(DuidA), Some(DuidUnknown)},
        sid \in {None, Some(TheConfig.v6_server_id), Some(OtherServerDuid)},
        ias \in {ia \in V6IaChoices : Len(ia) = 2}}

\* what a client sends after the header: a Solicit, a Solicit with Rapid Commit,
\* a Renew at this server, a Rebind
V6Openings ==
    {<<"Solicit", None, FALSE>>, <<"Solicit", None, TRUE>>,
     <<"Renew", Some(TheConfig.v6_server_id), FALSE>>, <<"Rebind", None, FALSE>>}

\* a client the index does not know by DUID: behind every relay, with every
\* choice of IA options, and with a DUID that carries its MAC
V6UnknownSpace ==
    {V6Datagram(relay, t[1], Some(DuidUnknown), t[2], t[3], ias) :
        relay \in V6Relays, t \in V6Openings,
        ias \in {ia \in V6IaChoices : Len(ia) = 2}}
    \cup
    {V6Datagram(RelayForw(PeerGlobal, <<LinkLayer(MacB)>>), t[1], Some(DuidUnknown),
                t[2], t[3], ias) :
        t \in V6Openings, ias \in {ia \in V6IaChoices : Len(ia) # 2}}
    \cup
    {V6Datagram(RelayForw(PeerGlobal, <<>>), t[1], Some(DuidLLOfMacB), t[2], t[3], ias) :
        t \in V6Openings, ias \in {ia \in V6IaChoices : Len(ia) = 2}}

\* a RelayForw without a RelayMsg option, and one that carries another relay's
\* RelayForw
V6Malformed ==
    {RelayForw(PeerGlobal, <<LinkLayer(MacB)>>),
     RelayForw(PeerGlobal, <<RelayMsg("Relay", RelayForw(PeerOfMacB, <<>>))>>)}

\* RelayMessage::from_bytes decodes the relay layout whatever the first byte
\* says: the same datagram with the message type of a RelayRepl
RelayRepl(relay) == [relay EXCEPT !.msg_type = "RelayRepl"]

\* datagrams in the relay layout that are no RelayForw: a RelayRepl around a
\* Solicit of a known and of an unknown client, and one without a RelayMsg option
V6NotRelayForw ==
    {RelayRepl(V6Datagram(RelayForw(PeerGlobal, <<LinkLayer(MacB)>>), "Solicit", Some(cid),
                          None, FALSE, ias)) :
        cid \in {DuidA, DuidUnknown}, ias \in {ia \in V6IaChoices : Len(ia) = 2}}
    \cup {RelayRepl(RelayForw(PeerGlobal, <<>>))}

\* a ClientId option without data, and one longer than a DUID may be
DuidEmpty == <<>>

DuidLong == [i \in 1..(MAX_DUID_LEN + 1) |-> 1]

\* a Solicit of a client that names itself so, behind the relay interface a
\* reservation is keyed by
V6OddClientIds ==
    {V6Datagram(RelayForw(PeerGlobal, <<InterfaceId("ge-0/0/1")>>), "Solicit", Some(cid),
                None, FALSE, ias) :
        cid \in {DuidEmpty, DuidLong}, ias \in {ia \in V6IaChoices : Len(ia) = 2}}

V6Requests ==
    V6HeaderSpace \cup V6UnknownSpace \cup V6Malformed \cup V6NotRelayForw
        \cup V6OddClientIds

----------------------------------------------------------------------------
(* The state machine: construction, and the DHCPv4 worker *)

\* nothing is in flight: no datagram is being answered, no command served
Quiet == v4io = None /\ v6io = None /\ mgmt = Idle

\* main: the reservation file is read and indexed, the caches are empty
InitWith(lists) ==
    /\ \E l \in lists :
          /\ heap = (1 :> DbObject(load_reservations(ReservationDb_new, l), l))
          /\ disk = [target |-> l, temp |-> None]
    /\ published = 1
    /\ leases = LeaseDb_new
    /\ now = 0
    /\ v4io = None
    /\ v6io = None
    /\ mgmt = Idle
    /\ sighup = Idle
    /\ worker = Idle
    /\ cleanup = LeaseDb_clone(LeaseDb_new)

Init == InitWith(ReservationLists)

\* v4_worker: a datagram is received and decoded, and handle_message runs on
\* reservations.load(), the lease cache and the configuration
HandleV4(msg) ==
    /\ Quiet
    /\ LET r == v4_handle_message(Db, leases, TheConfig, msg, now)
       IN  /\ v4io' = Some([msg |-> msg, resp |-> r.resp])
           /\ leases' = r.leases
    /\ UNCHANGED <<heap, published, now, disk, v6io, mgmt, sighup, worker, cleanup>>

\* v4_worker: the reply is sent (or nothing is), and the loop returns to recv_from
SendV4 ==
    /\ v4io # None
    /\ v4io' = None
    /\ UNCHANGED <<heap, published, leases, now, disk, v6io, mgmt, sighup, worker, cleanup>>

\* the same requests in another exchange: the client picked another xid
V4Retransmitted == {[m EXCEPT !.xid = 8] : m \in V4Roaming}

V4Requests ==
    V4RequestSpace \cup V4DiscoverSpace \cup V4Malformed \cup V4Roaming
        \cup V4Retransmitted

NextV4 ==
    \/ \E msg \in V4Requests : HandleV4(msg)
    \/ SendV4

SpecV4 == Init /\ [][NextV4]_vars

----------------------------------------------------------------------------
(* The server: both workers, the management listener, the cleanup thread *)

\* the RelayRepl the v6 worker wraps a reply in
relay_repl(relay_msg, message) ==
    LET o0 == opts_insert(<< >>, RelayMsg("Message", message))
        interface_id == find_opt(relay_msg.opts, "InterfaceId")
    IN  [msg_type |-> "RelayRepl", hop_count |-> relay_msg.hop_count,
         link_addr |-> relay_msg.link_addr, peer_addr |-> relay_msg.peer_addr,
         opts |-> IF IsSome(interface_id) THEN opts_insert(o0, Unwrap(interface_id))
                  ELSE o0]

\* what the loop does with the outcome of handle_message
v6_worker_reply(relay_msg, r) ==
    [resp |-> Some(r.resp),
     sent |-> IF r.resp.kind = "Message"
              THEN Some(relay_repl(relay_msg, r.resp.message)) ELSE None,
     leases |-> r.leases]

\* one turn of the v6 worker's loop on a decoded RelayForw
v6_worker(config, db, ldb, relay_msg, t) ==
    The({IF ~IsSome(opt) \/ Unwrap(opt).data.kind # "Message"
         THEN [resp |-> None, sent |-> None, leases |-> ldb]
         ELSE The({v6_worker_reply(relay_msg, r) :
                    r \in {v6_handle_message(config, db, ldb, Unwrap(opt).data.msg,
                                             relay_msg, t)}}) :
         opt \in {find_opt(relay_msg.opts, "RelayMsg")}})

HandleV6(relay_msg) ==
    /\ Quiet
    /\ \E r \in {v6_worker(TheConfig, Db, leases, relay_msg, now)} :
          /\ v6io' = Some([relay |-> relay_msg, resp |-> r.resp, sent |-> r.sent])
          /\ leases' = r.leases
    /\ UNCHANGED <<heap, published, now, disk, v4io, mgmt, sighup, worker, cleanup>>

\* v6_worker: the RelayRepl is sent (or nothing is), and the loop returns to recv_from
SendV6 ==
    /\ v6io # None
    /\ v6io' = None
    /\ UNCHANGED <<heap, published, leases, now, disk, v4io, mgmt, sighup, worker, cleanup>>

\* the file system under config_dir: reservations.json and reservations.json.tmp
File(content, complete) == [content |-> content, complete |-> complete]

create_temp(d) == [d EXCEPT !.temp = Some(File(<< >>, FALSE))]

write_temp(d, reservations) == [d EXCEPT !.temp = Some(File(reservations, TRUE))]

\* a rename that reports success and leaves reservations.json as it was
rename_temp_not_done(d) == d

rename_temp(d) == [target |-> Unwrap(d.temp).content, temp |-> None]

\* atomic_write_reservations, with the step at which the file system fails it
atomic_write_reservations(d, reservations, fault) ==
    CASE fault = "create" -> [ok |-> FALSE, disk |-> d]
      [] fault = "write" -> [ok |-> FALSE, disk |-> create_temp(d)]
      [] fault \in {"sync", "rename"} ->
            [ok |-> FALSE, disk |-> write_temp(create_temp(d), reservations)]
      [] OTHER ->
            [ok |-> TRUE, disk |-> rename_temp(write_temp(create_temp(d), reservations))]

MgmtResponse(success, count) == [success |-> success, reservation_count |-> count]

\* handle_client on a replace command
Replace(new_res, fault) ==
    /\ Quiet
    /\ LET w == atomic_write_reservations(disk, new_res, fault)
           id == NewId(heap)
       IN  /\ disk' = w.disk
           /\ IF w.ok
              THEN /\ published' = id
                   /\ heap' = Collect(heap @@ (id :> DbObject(
                                  load_reservations(ReservationDb_new, new_res), new_res)),
                                      {id})
                   /\ mgmt' = [pc |-> "respond",
                               response |-> MgmtResponse(TRUE, Some(Len(new_res)))]
              ELSE /\ UNCHANGED <<heap, published>>
                   /\ mgmt' = [pc |-> "respond", response |-> MgmtResponse(FALSE, None)]
    /\ UNCHANGED <<leases, now, v4io, v6io, sighup, worker, cleanup>>

\* handle_client: the response line is written and the connection closed
MgmtReply ==
    /\ mgmt # Idle
    /\ mgmt.pc = "respond"
    /\ mgmt' = Idle
    /\ UNCHANGED <<heap, published, leases, now, disk, v4io, v6io, sighup, worker, cleanup>>

\* the cleanup thread wakes up and sweeps db, the LeaseDb it cloned when it
\* was spawned; the cache the workers share is another object
Evict(opt82_max_age) ==
    /\ Quiet
    /\ cleanup' = evict_expired(cleanup, opt82_max_age, Db, now)
    /\ UNCHANGED <<heap, published, leases, now, disk, v4io, v6io, mgmt, sighup, worker>>

\* the monotonic clock advances
Tick ==
    /\ Quiet
    /\ now < MaxTicks * ADDRESS_LEASE_TIME
    /\ now' = now + ADDRESS_LEASE_TIME
    /\ UNCHANGED <<heap, published, leases, disk, v4io, v6io, mgmt, sighup, worker, cleanup>>

Next ==
    \/ \E msg \in V4Requests : HandleV4(msg)
    \/ SendV4
    \/ \E relay_msg \in V6Requests : HandleV6(relay_msg)
    \/ SendV6

Spec == Init /\ [][Next]_vars

\* one client, MacB, that roams between relays and speaks both protocols, while
\* the reservations are replaced, the clock advances and the cleanup thread runs
V4RoamingText ==
    {m \in V4Roaming :
        relay_agent_information(m) \in {Some(RelayRemote), Some(RelayCircuit)}}

V6Roaming ==
    {V6Datagram(relay, "Solicit", Some(DuidUnknown), None, FALSE, ias) :
        relay \in {RelayForw(PeerGlobal, <<LinkLayer(MacB)>>),
                   RelayForw(PeerGlobal, <<InterfaceId("ge-0/0/1"), LinkLayer(MacB)>>),
                   RelayForw(PeerGlobal, <<>>)},
        ias \in {ia \in V6IaChoices : Len(ia) = 2}}

OptMaxAges == {ADDRESS_LEASE_TIME, 24 * ADDRESS_LEASE_TIME}

NextRoam ==
    \/ \E msg \in V4RoamingText : HandleV4(msg)
    \/ SendV4
    \/ \E relay_msg \in V6Roaming : HandleV6(relay_msg)
    \/ SendV6
    \/ \E l \in ReservationLists, fault \in {"none", "create"} : Replace(l, fault)
    \/ MgmtReply
    \/ \E age \in OptMaxAges : Evict(age)
    \/ Tick

SpecRoam == Init /\ [][NextRoam]_vars

\* the same system with its two timed threads kept going: the clock advances
\* up to the bound, and the cleanup thread's loop (sleep, evict_expired) takes
\* each sweep that is due; clients may fall silent at any moment
SpecSweep ==
    /\ Init
    /\ [][NextRoam]_vars
    /\ WF_vars(Tick)
    /\ WF_vars(\E age \in OptMaxAges : Evict(age))

\* the DHCPv4 worker over snapshots and datagrams that take every step of the
\* resolver's ladder: a reservation keyed by the MAC of a client whose relay
\* information selects another one, relay information that several
\* extractors draw a key from, and a reservation outside every subnet
ResCircuitRemote ==
    Reservation(<<10, 0, 0, 202>>, "2001:db8::202", Net6("2001:db8:202::", 56),
                None, None, Some(Opt82(Some("eth2:100"), Some("switch1:port1"), None)), None)

\* keyed by MacB; its ipv4 lies outside every configured subnet
ResFar ==
    Reservation(<<172, 16, 0, 9>>, "2001:db8::9", Net6("2001:db8:9::", 56),
                Some(MacB), None, None, None)

LadderPool == <<ResMac, ResRemote, ResCircuit, ResCircuitRemote, ResFar>>

LadderLists == ListsFrom(LadderPool, 1, MaxRes)

RelayCircuitRemote == RelayInfo(Text("eth2:100"), Text("switch1:port1"), None)

V4LadderRelays ==
    {None, Some(RelayRemote), Some(RelayCircuit), Some(RelayCircuitRemote), Some(RelayBinary)}

\* a DISCOVER, and an INIT-REBOOT REQUEST for an address, from MacA and MacB
\* behind each relay
V4Ladder ==
    {V4Datagram("BootRequest", mac, IF IsSome(relay) THEN RelayAddr ELSE UNSPECIFIED, 0,
                UNSPECIFIED, V4Opts(Some("Discover"), None, None, relay)) :
        mac \in {MacA, MacB}, relay \in V4LadderRelays}
    \cup
    {V4Datagram("BootRequest", mac, IF IsSome(relay) THEN RelayAddr ELSE UNSPECIFIED, 0,
                UNSPECIFIED, V4Opts(Some("Request"), None, Some(a), relay)) :
        mac \in {MacA, MacB}, relay \in V4LadderRelays,
        a \in {ResRemote.ipv4, ResFar.ipv4}}

InitLadder == InitWith(LadderLists)

NextLadder ==
    \/ \E msg \in V4Ladder : HandleV4(msg)
    \/ SendV4

SpecLadder == InitLadder /\ [][NextLadder]_vars

\* LeaseDb::evict_expired called on the cache the handlers fill, by a caller
\* that holds the LeaseDb itself (as the tests of leasedb.rs do), while leases
\* and bindings are recorded at different times and the snapshot is replaced
EvictPool == <<ResRemote, ResCircuit>>

EvictLists == ListsFrom(EvictPool, 1, MaxRes)

\* long enough for a DHCPv6 lease to run out
EvictTicks == MaxTicks + 1

V6Sweeping ==
    {V6Datagram(RelayForw(PeerGlobal, <<LinkLayer(MacB)>>), "Solicit", Some(DuidUnknown),
                None, FALSE, ias) :
        ias \in {ia \in V6IaChoices : Len(ia) = 2}}

InitEvict == InitWith(EvictLists)

EvictExpired(opt82_max_age) ==
    /\ Quiet
    /\ leases' = evict_expired(leases, opt82_max_age, Db, now)
    /\ UNCHANGED <<heap, published, now, disk, v4io, v6io, mgmt, sighup, worker, cleanup>>

Elapse ==
    /\ Quiet
    /\ now < EvictTicks * ADDRESS_LEASE_TIME
    /\ now' = now + ADDRESS_LEASE_TIME
    /\ UNCHANGED <<heap, published, leases, disk, v4io, v6io, mgmt, sighup, worker, cleanup>>

NextEvict ==
    \/ \E msg \in V4RoamingText : HandleV4(msg)
    \/ SendV4
    \/ \E relay_msg \in V6Sweeping : HandleV6(relay_msg)
    \/ SendV6
    \/ \E l \in EvictLists : Replace(l, "none")
    \/ MgmtReply
    \/ \E age \in OptMaxAges : EvictExpired(age)
    \/ Elapse

SpecEvict == InitEvict /\ [][NextEvict]_vars

\* the DHCPv6 worker while the clock advances: every message type from a
\* client known by its DUID, with and without IA options
V6BareSpace ==
    {V6Datagram(RelayForw(PeerGlobal, <<LinkLayer(MacB)>>), t, Some(DuidA), sid, FALSE, ias) :
        t \in {"Solicit", "Request", "Renew", "Rebind"},
        sid \in {None, Some(TheConfig.v6_server_id)},
        ias \in {ia \in V6IaChoices : Len(ia) # 2}}

NextV6Clock ==
    \/ \E relay_msg \in V6HeaderSpace \cup V6BareSpace : HandleV6(relay_msg)
    \/ SendV6
    \/ Tick

SpecV6Clock == Init /\ [][NextV6Clock]_vars

\* the DHCPv6 resolver over snapshots, bindings and datagrams that take every
\* rung of its ladder: clients known by DUID, by the relay's Interface-ID, by
\* the MAC one extractor or another draws, and by the Option82 a DHCPv4 ACK
\* bound to such a MAC, with relays that offer several of these at once
V6LadderPool == <<ResMac, ResRemote, ResOut, ResFar>>

V6LadderLists == ListsFrom(V6LadderPool, 1, MaxRes)

\* a REQUEST for the address reserved for the port, from MacA and from MacB
V4Binding ==
    {V4Datagram("BootRequest", mac, RelayAddr, 0, UNSPECIFIED,
                V4Opts(Some("Request"), None, Some(ResRemote.ipv4), Some(RelayRemote))) :
        mac \in {MacA, MacB}}

V6Ladder ==
    {V6Datagram(relay, "Solicit", Some(cid), None, FALSE, ias) :
        relay \in V6Relays, cid \in {DuidA, DuidUnknown, DuidLLOfMacB},
        ias \in {ia \in V6IaChoices : Len(ia) = 2}}

InitV6Ladder == InitWith(V6LadderLists)

NextV6Ladder ==
    \/ \E msg \in V4Binding : HandleV4(msg)
    \/ SendV4
    \/ \E relay_msg \in V6Ladder : HandleV6(relay_msg)
    \/ SendV6

SpecV6Ladder == InitV6Ladder /\ [][NextV6Ladder]_vars

\* the cleanup thread step by step: spawn_cleanup_thread copies the cache at
\* whatever moment it is called, the thread sleeps, and a sweep borrows the
\* published snapshot once and then runs its four retain passes, while
\* reloads and handlers go on.  In this specification `worker` is the cleanup
\* thread: Idle before it is spawned.
Sleeping == [pc |-> "sleep"]

Sweeping(pc, opt82_max_age, started, reservations) ==
    [pc |-> pc, opt82_max_age |-> opt82_max_age, started |-> started,
     reservations |-> reservations]

\* let db = self.clone(); ... spawn(..)
SpawnCleanup ==
    /\ worker = Idle
    /\ cleanup' = LeaseDb_clone(leases)
    /\ worker' = Sleeping
    /\ UNCHANGED <<heap, published, leases, now, disk, v4io, v6io, mgmt, sighup>>

\* sleep(interval) returns; reservations.load() and Instant::now()
SweepBegin(opt82_max_age) ==
    /\ worker = Sleeping
    /\ worker' = Sweeping("expire", opt82_max_age, now, Db)
    /\ UNCHANGED <<heap, published, leases, now, disk, v4io, v6io, mgmt, sighup, cleanup>>

\* mac_to_opt82.retain(|_, entry| now.duration_since(entry.last_seen) < opt82_max_age)
SweepExpire ==
    /\ worker.pc = "expire"
    /\ cleanup' = [cleanup EXCEPT !.mac_to_opt82 =
                      [m \in {x \in DOMAIN @ : worker.started - @[x].last_seen
                                                    < worker.opt82_max_age} |-> @[m]]]
    /\ worker' = [worker EXCEPT !.pc = "orphans"]
    /\ UNCHANGED <<heap, published, leases, now, disk, v4io, v6io, mgmt, sighup>>

\* mac_to_opt82.retain(|_, entry| reservations.has_opt82(&entry.opt82))
SweepOrphans ==
    /\ worker.pc = "orphans"
    /\ cleanup' = [cleanup EXCEPT !.mac_to_opt82 =
                      [m \in {x \in DOMAIN @ : has_opt82(worker.reservations, @[x].opt82)}
                          |-> @[m]]]
    /\ worker' = [worker EXCEPT !.pc = "leases"]
    /\ UNCHANGED <<heap, published, leases, now, disk, v4io, v6io, mgmt, sighup>>

\* v4.retain(..) and v6.retain(..); the borrowed snapshot is given back
SweepLeases ==
    /\ worker.pc = "leases"
    /\ cleanup' = [cleanup EXCEPT
                      !.v4 = [r \in {x \in DOMAIN @ : worker.started - @[x].last_leased
                                                        < @[x].valid} |-> @[r]],
                      !.v6 = [r \in {x \in DOMAIN @ : worker.started - @[x].last_leased
                                                        < @[x].valid} |-> @[r]]]
    /\ worker' = Sleeping
    /\ UNCHANGED <<heap, published, leases, now, disk, v4io, v6io, mgmt, sighup>>

NextSteps ==
    \/ \E msg \in V4RoamingText : HandleV4(msg)
    \/ SendV4
    \/ \E l \in EvictLists : Replace(l, "none")
    \/ MgmtReply
    \/ Tick
    \/ SpawnCleanup
    \/ \E age \in OptMaxAges : SweepBegin(age)
    \/ SweepExpire
    \/ SweepOrphans
    \/ SweepLeases

SpecSteps == InitEvict /\ [][NextSteps]_vars

\* ReservationDb on its own: reservations inserted one by one into one index,
\* some of them under a key another one carries, and keys looked up in it
ResMoved ==
    Reservation(<<10, 0, 0, 101>>, "2001:db8::101", Net6("2001:db8:101::", 56),
                Some(MacA), None, Some(Opt82(None, Some("switch1:port1"), None)), None)

IndexPool == {ResMac, ResRemote, ResBoth, ResMoved}

MaxInserts == 3

IndexKeys ==
    {MacKey(MacA), MacKey(MacB), DuidKey(DuidA), DuidKey(DuidUnknown),
     Opt82Key(Opt82(None, Some("switch1:port1"), None)),
     Opt82Key(Opt82(Some("eth2:100"), None, None))}

InitIndex == InitWith({<<>>})

\* ReservationDb::insert
IndexInsert(r) ==
    /\ Len(heap[published].source) < MaxInserts
    /\ heap' = [heap EXCEPT ![published] =
                    DbObject(insert(@.index, r), Append(@.source, r))]
    /\ worker' = Idle
    /\ UNCHANGED <<published, leases, now, disk, v4io, v6io, mgmt, sighup, cleanup>>

\* load_reservations with the list the index already holds
IndexLoadAgain ==
    /\ heap[published].source # <<>>
    /\ heap' = [heap EXCEPT ![published] =
                    DbObject(load_reservations(@.index, @.source), @.source)]
    /\ worker' = [pc |-> "loaded", before |-> Db]
    /\ UNCHANGED <<published, leases, now, disk, v4io, v6io, mgmt, sighup, cleanup>>

\* by_mac, by_duid or by_opt82 called by a thread; the panic unwinds the thread
IndexLookup(q, probed) ==
    /\ worker' = [pc |-> "looked", key |-> q, got |-> DashMap_get(Db, q, probed)]
    /\ UNCHANGED <<heap, published, leases, now, disk, v4io, v6io, mgmt, sighup, cleanup>>

NextIndex ==
    \/ \E r \in IndexPool : IndexInsert(r)
    \/ IndexLoadAgain
    \/ \E q \in IndexKeys, probed \in SUBSET (DOMAIN Db) : IndexLookup(q, probed)

SpecIndex == InitIndex /\ [][NextIndex]_vars

----------------------------------------------------------------------------
(* One worker thread's loop: recv_from, decode, handle_message, encode,
   send_to, and the event handed to the analytics channel *)

\* consecutive recv errors the model counts
MaxErrors == 8

MAX_BACKOFF_MS == 1000

\* min(10_u64.saturating_mul(2_u64.saturating_pow(error_count)), MAX_BACKOFF_MS);
\* nothing saturates for the counts up to MaxErrors
backoff_ms(error_count) ==
    IF 10 * (2 ^ error_count) < MAX_BACKOFF_MS THEN 10 * (2 ^ error_count)
    ELSE MAX_BACKOFF_MS

\* the locals of v4_worker / v6_worker, and what the last iteration did
LoopWorker(proto, event_channel) ==
    [pc |-> "recv", proto |-> proto, event_channel |-> event_channel,
     error_count |-> 0, slept |-> None, turn |-> None]

\* one iteration on a datagram: the response handle_message gave (if it was
\* reached), whether send_to delivered a reply, the events sent to the channel
Turn(datagram, resp, sent, events) ==
    [datagram |-> datagram, resp |-> resp, sent |-> sent, events |-> events]

\* bytes on the wire: Message::from_bytes / RelayMessage::from_bytes fails on
\* Undecodable and yields msg on Wire(msg)
Undecodable == [decodes |-> FALSE]

Wire(msg) == [decodes |-> TRUE, msg |-> msg]

\* DhcpEventV4::failed / DhcpEventV6::failed
Event_failed(reason) ==
    [success |-> FALSE, reason |-> Some(reason), reservation |-> None,
     reservation_match |-> None]

\* DhcpEventV4::success / DhcpEventV6::success
Event_success(reservation, reservation_match) ==
    [success |-> TRUE, reason |-> None, reservation |-> reservation,
     reservation_match |-> reservation_match]

\* if let Some(ref event_sender) = event_channel { event_sender.send(event) }
emit(w, event) == IF w.event_channel THEN <<event>> ELSE <<>>

\* the Err arm of recv_from: ConnectionReset and Interrupted are logged, any
\* other error is counted and slept on; then continue
recv_err(w, kind) ==
    IF kind \in {"ConnectionReset", "Interrupted"}
    THEN [w EXCEPT !.slept = None, !.turn = None]
    ELSE [w EXCEPT !.error_count = w.error_count + 1,
                   !.slept = Some(backoff_ms(w.error_count + 1)),
                   !.turn = None]

\* the Ok arm of recv_from
recv_ok(w) == [w EXCEPT !.error_count = 0, !.slept = None]

\* the match on what handle_message returned: a NoResponse is reported, a
\* Message is encoded and sent and reported once send_to succeeded
loop_respond(w, datagram, r, encode_ok, send_ok) ==
    [worker |->
        [w EXCEPT !.turn =
            IF r.resp.kind = "NoResponse"
            THEN Some(Turn(datagram, Some(r.resp), FALSE,
                           emit(w, Event_failed(r.resp.reason))))
            ELSE IF ~encode_ok \/ ~send_ok
            THEN Some(Turn(datagram, Some(r.resp), FALSE, <<>>))
            ELSE Some(Turn(datagram, Some(r.resp), TRUE,
                           emit(w, Event_success(r.resp.reservation,
                                                 r.resp.reservation_match))))],
     leases |-> r.leases]

\* the iteration ends before handle_message is called
loop_continue(w, datagram, ldb) ==
    [worker |-> [w EXCEPT !.turn = Some(Turn(datagram, None, FALSE, <<>>))],
     leases |-> ldb]

\* the thread unwinds out of the worker function
loop_panic(w, datagram, ldb) ==
    [worker |-> [w EXCEPT !.pc = "panicked",
                          !.turn = Some(Turn(datagram, None, FALSE, <<>>))],
     leases |-> ldb]

\* the key of the first lookup of handle_message: find_reservation starts with
\* by_mac(chaddr), in handle_discover and in handle_request alike
v4_first_lookup(msg) ==
    IF /\ msg.opcode = "BootRequest"
       /\ message_type(msg) \in {Some("Discover"), Some("Request")}
       /\ IsSome(MacAddr6_try_from(msg.chaddr))
    THEN Some(MacKey(Unwrap(MacAddr6_try_from(msg.chaddr))))
    ELSE None

\* one iteration of v4_worker on a received datagram
v4_worker_turn(w, db, ldb, config, datagram, probed, encode_ok, send_ok, t) ==
    IF ~datagram.decodes THEN loop_continue(recv_ok(w), datagram, ldb)
    ELSE IF \E q \in {v4_first_lookup(datagram.msg)} :
                IsSome(q) /\ DashMap_get(db, Unwrap(q), probed).panicked
    THEN loop_panic(recv_ok(w), datagram, ldb)
    ELSE The({loop_respond(recv_ok(w), datagram, r, encode_ok, send_ok) :
                r \in {v4_handle_message(db, ldb, config, datagram.msg, t)}})

\* the reasons the DHCPv6 handlers return before find_reservation is called
V6HeaderReasons ==
    {"NoClientId", "UnexpectedServerId", "NoServerId", "WrongServerId", "Discarded"}

\* the key of the first lookup of the DHCPv6 handler that returned resp:
\* find_reservation starts with by_duid(client_id)
v6_first_lookup(msg, resp) ==
    IF resp.kind = "NoResponse" /\ resp.reason \in V6HeaderReasons THEN None
    ELSE Some(DuidKey(Unwrap(client_id(msg))))

\* one iteration of v6_worker on a received datagram
v6_worker_turn(w, db, ldb, config, datagram, probed, encode_ok, send_ok, t) ==
    IF ~datagram.decodes THEN loop_continue(recv_ok(w), datagram, ldb)
    ELSE The({
        IF ~IsSome(r.resp) THEN loop_continue(recv_ok(w), datagram, ldb)
        ELSE IF \E q \in {v6_first_lookup(
                              Unwrap(find_opt(datagram.msg.opts, "RelayMsg")).data.msg,
                              Unwrap(r.resp))} :
                    IsSome(q) /\ DashMap_get(db, Unwrap(q), probed).panicked
        THEN loop_panic(recv_ok(w), datagram, ldb)
        ELSE loop_respond(recv_ok(w), datagram,
                          [resp |-> Unwrap(r.resp), leases |-> r.leases],
                          encode_ok, send_ok) :
        r \in {v6_worker(config, db, ldb, datagram.msg, t)}})

LoopPool == <<ResMac, ResRemote>>

LoopLists == ListsFrom(LoopPool, 1, MaxRes)

\* a DISCOVER of a reserved and of an unknown client, an INIT-REBOOT REQUEST
\* that is ACKed, a BootReply, and bytes that are no DHCPv4 message
LoopV4Datagrams ==
    {Wire(V4Datagram("BootRequest", MacA, UNSPECIFIED, 0, UNSPECIFIED,
                     V4Opts(Some("Discover"), None, None, None))),
     Wire(V4Datagram("BootRequest", MacB, RelayAddr, 0, UNSPECIFIED,
                     V4Opts(Some("Discover"), None, None, Some(RelayRemote))))}
    \cup {Wire(V4Datagram("BootRequest", MacA, UNSPECIFIED, 0, UNSPECIFIED,
                          V4Opts(Some("Request"), None, Some(ResMac.ipv4), None))),
          Wire(V4Datagram("BootReply", MacA, UNSPECIFIED, 0, UNSPECIFIED,
                          V4Opts(Some("Request"), None, Some(ResMac.ipv4), None))),
          Undecodable}

\* a Solicit of a reserved and of an unknown client, a relay message without
\* a client message in it, and bytes that are no relay message
LoopV6Datagrams ==
    {Wire(V6Datagram(RelayForw(PeerGlobal, <<LinkLayer(MacB)>>), "Solicit", Some(cid),
                     None, FALSE, ias)) :
        cid \in {DuidA, DuidUnknown}, ias \in {ia \in V6IaChoices : Len(ia) = 2}}
    \cup {Wire(m) : m \in V6Malformed}
    \cup {Undecodable}

InitLoop ==
    /\ \E l \in LoopLists :
          /\ heap = (1 :> DbObject(load_reservations(ReservationDb_new, l), l))
          /\ disk = [target |-> l, temp |-> None]
    /\ published = 1
    /\ leases = LeaseDb_new
    /\ now = 0
    /\ v4io = None
    /\ v6io = None
    /\ mgmt = Idle
    /\ sighup = Idle
    /\ worker \in {LoopWorker(proto, event_channel) :
                       proto \in {"v4", "v6"}, event_channel \in BOOLEAN}
    /\ cleanup = LeaseDb_clone(LeaseDb_new)

\* recv_from returns an error
RecvErr(kind) ==
    /\ worker.pc = "recv"
    /\ worker.error_count < MaxErrors
    /\ worker' = recv_err(worker, kind)
    /\ UNCHANGED <<heap, published, leases, now, disk, v4io, v6io, mgmt, sighup, cleanup>>

\* the stored keys a lookup's probe may compare its key with
Probes == {{}} \cup {{k} : k \in DOMAIN Db}

\* recv_from returns a datagram and the iteration of v4_worker runs on it
LoopV4(datagram, probed, encode_ok, send_ok) ==
    /\ worker.pc = "recv"
    /\ worker.proto = "v4"
    /\ \E r \in {v4_worker_turn(worker, Db, leases, TheConfig, datagram, probed,
                                 encode_ok, send_ok, now)} :
          /\ worker' = r.worker
          /\ leases' = r.leases
    /\ UNCHANGED <<heap, published, now, disk, v4io, v6io, mgmt, sighup, cleanup>>

\* recv_from returns a datagram and the iteration of v6_worker runs on it
LoopV6(datagram, probed, encode_ok, send_ok) ==
    /\ worker.pc = "recv"
    /\ worker.proto = "v6"
    /\ \E r \in {v6_worker_turn(worker, Db, leases, TheConfig, datagram, probed,
                                 encode_ok, send_ok, now)} :
          /\ worker' = r.worker
          /\ leases' = r.leases
    /\ UNCHANGED <<heap, published, now, disk, v4io, v6io, mgmt, sighup, cleanup>>

NextLoop ==
    \/ \E kind \in {"ConnectionReset", "Interrupted", "Other"} : RecvErr(kind)
    \/ \E datagram \in LoopV4Datagrams, probed \in Probes, encode_ok, send_ok \in BOOLEAN :
          LoopV4(datagram, probed, encode_ok, send_ok)
    \/ \E datagram \in LoopV6Datagrams, probed \in Probes, encode_ok, send_ok \in BOOLEAN :
          LoopV6(datagram, probed, encode_ok, send_ok)

SpecLoop == InitLoop /\ [][NextLoop]_vars

----------------------------------------------------------------------------
(* The analytics channel: the worker holds an mpsc::Sender<DhcpEvent>, the
   sending half of the channel std::sync::mpsc::channel() creates; its queue
   has no capacity, and send() appends to it without waiting *)

\* the events the model lets pile up in the channel
MaxQueued == 3

\* Sender::send while the Receiver is alive: the events are appended to the
\* queue, however long it is, and Ok(()) is returned
Sender_send(queue, events) == queue \o events

\* a worker with an event channel, and the queue of that channel
EventWorker(proto) ==
    [pc |-> "recv", proto |-> proto, event_channel |-> TRUE, error_count |-> 0,
     slept |-> None, turn |-> None, queue |-> <<>>]

InitEvents ==
    /\ \E l \in LoopLists :
          /\ heap = (1 :> DbObject(load_reservations(ReservationDb_new, l), l))
          /\ disk = [target |-> l, temp |-> None]
    /\ published = 1
    /\ leases = LeaseDb_new
    /\ now = 0
    /\ v4io = None
    /\ v6io = None
    /\ mgmt = Idle
    /\ sighup = Idle
    /\ worker \in {EventWorker(proto) : proto \in {"v4", "v6"}}
    /\ cleanup = LeaseDb_clone(LeaseDb_new)

\* the iteration has run: what it emitted is sent to the channel
Emitted(r) ==
    /\ worker' = [r.worker EXCEPT !.queue = Sender_send(@, Unwrap(r.worker.turn).events)]
    /\ leases' = r.leases

\* one iteration of v4_worker, the consumer being wherever it is
EmitV4(datagram, probed, encode_ok, send_ok) ==
    /\ worker.pc = "recv"
    /\ worker.proto = "v4"
    /\ Len(worker.queue) < MaxQueued
    /\ \E r \in {v4_worker_turn(worker, Db, leases, TheConfig, datagram, probed,
                                 encode_ok, send_ok, now)} : Emitted(r)
    /\ UNCHANGED <<heap, published, now, disk, v4io, v6io, mgmt, sighup, cleanup>>

\* one iteration of v6_worker
EmitV6(datagram, probed, encode_ok, send_ok) ==
    /\ worker.pc = "recv"
    /\ worker.proto = "v6"
    /\ Len(worker.queue) < MaxQueued
    /\ \E r \in {v6_worker_turn(worker, Db, leases, TheConfig, datagram, probed,
                                 encode_ok, send_ok, now)} : Emitted(r)
    /\ UNCHANGED <<heap, published, now, disk, v4io, v6io, mgmt, sighup, cleanup>>

\* Receiver::recv: the consumer takes the oldest event, when it gets to it
Consume ==
    /\ worker.queue # <<>>
    /\ worker' = [worker EXCEPT !.queue = Tail(@)]
    /\ UNCHANGED <<heap, published, leases, now, disk, v4io, v6io, mgmt, sighup, cleanup>>

NextEvents ==
    \/ \E datagram \in LoopV4Datagrams, probed \in Probes, encode_ok, send_ok \in BOOLEAN :
          EmitV4(datagram, probed, encode_ok, send_ok)
    \/ \E datagram \in LoopV6Datagrams, probed \in Probes, encode_ok, send_ok \in BOOLEAN :
          EmitV6(datagram, probed, encode_ok, send_ok)
    \/ Consume

SpecEvents == InitEvents /\ [][NextEvents]_vars

----------------------------------------------------------------------------
(* The threads step by step: a v4 worker, the management thread serving a
   replace command, the SIGHUP thread reloading from disk *)

\* a thread inside reload_from_disk or inside the replace arm of handle_client
Thread(pc, cmd, new_res, db, todo, swapped) ==
    [pc |-> pc, cmd |-> cmd, new_res |-> new_res, db |-> db, todo |-> todo,
     swapped |-> swapped]

Responding(response) == [pc |-> "respond", response |-> response]

\* the objects somebody holds an Arc to: the published one, the one a worker
\* borrowed, the ones under construction
ThreadRefs(t) == IF t.pc = "load" THEN {t.db} ELSE {}

WorkerRefs(w) == IF w.pc = "idle" THEN {} ELSE {w.snap}

Live(pub, w, a, b) == {pub} \cup WorkerRefs(w) \cup ThreadRefs(a) \cup ThreadRefs(b)

\* a database that is rebuilt where the published one lies
Arc_new_in_place(h, pub) == pub

\* Arc::new(new_db): a fresh object, private to the thread that builds it
Arc_new(h, pub) == NewId(h)

Alloc(h, id, object) == [i \in (DOMAIN h) \cup {id} |-> IF i = id THEN object ELSE h[i]]

ConcPool == <<ResMac, ResRemote>>

\* the files this scenario moves between: each is the one before it with one
\* more reservation
ConcLists == {SubSeq(ConcPool, 1, n) : n \in 0..Len(ConcPool)}

InitConc == InitWith(ConcLists)

\* DISCOVERs of a client known by its MAC and of one known by its relay
V4Discovering ==
    {V4Datagram("BootRequest", MacA, UNSPECIFIED, 0, UNSPECIFIED,
                V4Opts(Some("Discover"), None, None, None)),
     V4Datagram("BootRequest", MacB, RelayAddr, 0, UNSPECIFIED,
                V4Opts(Some("Discover"), None, None, Some(RelayRemote)))}

\* v4_worker: reservations.load() borrows the published snapshot for the call
WorkerLoad(msg) ==
    /\ worker = Idle
    /\ v4io = None
    /\ worker' = [pc |-> "by_mac", msg |-> msg, snap |-> published,
                  began |-> heap[published], mac_hit |-> None, relay_hit |-> None]
    /\ UNCHANGED <<heap, published, leases, now, disk, v4io, v6io, mgmt, sighup, cleanup>>

\* find_reservation: reservations.by_mac(mac)
WorkerByMac ==
    /\ worker.pc = "by_mac"
    /\ \E hit \in {by_mac(heap[worker.snap].index, worker.msg.chaddr)} :
          worker' = [worker EXCEPT
                        !.mac_hit = hit,
                        !.pc = IF IsSome(hit) \/ ~IsSome(relay_agent_information(worker.msg))
                               THEN "reply" ELSE "by_relay"]
    /\ UNCHANGED <<heap, published, leases, now, disk, v4io, v6io, mgmt, sighup, cleanup>>

\* find_reservation: the extractors' lookups under the relay information
WorkerByRelay ==
    /\ worker.pc = "by_relay"
    /\ worker' = [worker EXCEPT
                    !.relay_hit = v4_find_reservation_by_relay_info(
                                      heap[worker.snap].index, TheConfig.option82_extractors,
                                      Unwrap(relay_agent_information(worker.msg))),
                    !.pc = "reply"]
    /\ UNCHANGED <<heap, published, leases, now, disk, v4io, v6io, mgmt, sighup, cleanup>>

\* what find_reservation returns from the two lookups
WorkerFound(w) ==
    IF IsSome(w.mac_hit) THEN Some(<<Unwrap(w.mac_hit), Match("mac", None)>>)
    ELSE w.relay_hit

\* handle_discover: the rest of the handler, on what the lookups returned
WorkerReply ==
    /\ worker.pc = "reply"
    /\ \E found \in {WorkerFound(worker)} :
          v4io' = Some([msg |-> worker.msg,
                        resp |-> IF ~IsSome(found) THEN V4NoResponse("NoReservation", leases).resp
                                 ELSE IF ~IsSome(find_subnet(TheConfig.subnets_v4,
                                                             Unwrap(found)[1].ipv4))
                                 THEN V4NoResponse("NoServerSubnet", leases).resp
                                 ELSE V4Message(
                                        [new_reply(worker.msg, Unwrap(found)[1].ipv4) EXCEPT
                                            !.opts = lease_opts(TheConfig, "Offer",
                                                Unwrap(find_subnet(TheConfig.subnets_v4,
                                                                   Unwrap(found)[1].ipv4)))],
                                        Unwrap(found)[1], Unwrap(found)[2], leases).resp])
    /\ worker' = [worker EXCEPT !.pc = "send"]
    /\ UNCHANGED <<heap, published, leases, now, disk, v6io, mgmt, sighup, cleanup>>

\* v4_worker: the reply is sent, the borrowed snapshot is given back
WorkerSend ==
    /\ worker.pc = "send"
    /\ worker' = Idle
    /\ v4io' = None
    /\ heap' = Collect(heap, Live(published, worker', mgmt, sighup))
    /\ UNCHANGED <<published, leases, now, disk, v6io, mgmt, sighup, cleanup>>

\* reload_from_disk: reservations.json is opened and parsed
ReloadRead(t, tn) ==
    /\ t = Idle
    /\ tn = Thread("new", "reload", disk.target, 0, << >>, FALSE)

\* ReservationDb::new()
NewDb(t, tn) ==
    /\ t.pc = "new"
    /\ \E id \in {Arc_new(heap, published)} :
          /\ heap' = Alloc(heap, id, DbObject(ReservationDb_new, t.new_res))
          /\ tn = [t EXCEPT !.pc = "load", !.db = id, !.todo = t.new_res]

\* load_reservations: one reservation is inserted
LoadOne(t, tn) ==
    /\ t.pc = "load"
    /\ t.todo # << >>
    /\ heap' = [heap EXCEPT ![t.db].index = insert(@, Head(t.todo))]
    /\ tn = [t EXCEPT !.todo = Tail(@)]

\* reservations.store(Arc::new(new_db))
Store(t, tn, after) ==
    /\ t.pc = "load"
    /\ t.todo = << >>
    /\ published' = t.db
    /\ tn = after

SighupRead ==
    /\ ReloadRead(sighup, sighup')
    /\ UNCHANGED <<heap, published, leases, now, disk, v4io, v6io, mgmt, worker, cleanup>>

SighupNewDb ==
    /\ sighup # Idle
    /\ NewDb(sighup, sighup')
    /\ UNCHANGED <<published, leases, now, disk, v4io, v6io, mgmt, worker, cleanup>>

SighupLoadOne ==
    /\ sighup # Idle
    /\ LoadOne(sighup, sighup')
    /\ UNCHANGED <<published, leases, now, disk, v4io, v6io, mgmt, worker, cleanup>>

SighupStore ==
    /\ sighup # Idle
    /\ Store(sighup, sighup', Idle)
    /\ heap' = Collect(heap, Live(published', worker, mgmt, sighup'))
    /\ UNCHANGED <<leases, now, disk, v4io, v6io, mgmt, worker, cleanup>>

\* handle_client: a replace command is read and parsed
MgmtReplace(new_res) ==
    /\ mgmt = Idle
    /\ mgmt' = Thread("create", "replace", new_res, 0, << >>, FALSE)
    /\ UNCHANGED <<heap, published, leases, now, disk, v4io, v6io, sighup, worker, cleanup>>

MgmtFailed == Responding(MgmtResponse(FALSE, None))

\* atomic_write_reservations: File::create(&temp)
MgmtCreate(ok) ==
    /\ mgmt # Idle /\ mgmt.pc = "create"
    /\ IF ok THEN disk' = create_temp(disk) /\ mgmt' = [mgmt EXCEPT !.pc = "write"]
       ELSE disk' = disk /\ mgmt' = MgmtFailed
    /\ UNCHANGED <<heap, published, leases, now, v4io, v6io, sighup, worker, cleanup>>

\* atomic_write_reservations: to_writer_pretty and the final newline
MgmtWrite(ok) ==
    /\ mgmt # Idle /\ mgmt.pc = "write"
    /\ IF ok THEN disk' = write_temp(disk, mgmt.new_res) /\ mgmt' = [mgmt EXCEPT !.pc = "sync"]
       ELSE disk' = disk /\ mgmt' = MgmtFailed
    /\ UNCHANGED <<heap, published, leases, now, v4io, v6io, sighup, worker, cleanup>>

\* atomic_write_reservations: flush and sync_all
MgmtSync(ok) ==
    /\ mgmt # Idle /\ mgmt.pc = "sync"
    /\ mgmt' = IF ok THEN [mgmt EXCEPT !.pc = "rename"] ELSE MgmtFailed
    /\ UNCHANGED <<heap, published, leases, now, disk, v4io, v6io, sighup, worker, cleanup>>

\* atomic_write_reservations: fs::rename(&temp, &target)
MgmtRename(ok) ==
    /\ mgmt # Idle /\ mgmt.pc = "rename"
    /\ IF ok THEN disk' = rename_temp(disk) /\ mgmt' = [mgmt EXCEPT !.pc = "new"]
       ELSE disk' = disk /\ mgmt' = MgmtFailed
    /\ UNCHANGED <<heap, published, leases, now, v4io, v6io, sighup, worker, cleanup>>

MgmtNewDb ==
    /\ mgmt # Idle
    /\ NewDb(mgmt, mgmt')
    /\ UNCHANGED <<published, leases, now, disk, v4io, v6io, sighup, worker, cleanup>>

MgmtLoadOne ==
    /\ mgmt # Idle
    /\ LoadOne(mgmt, mgmt')
    /\ UNCHANGED <<published, leases, now, disk, v4io, v6io, sighup, worker, cleanup>>

MgmtStore ==
    /\ mgmt # Idle
    /\ Store(mgmt, mgmt', [mgmt EXCEPT !.pc = "stored", !.swapped = TRUE])
    /\ heap' = Collect(heap, Live(published', worker, mgmt', sighup))
    /\ UNCHANGED <<leases, now, disk, v4io, v6io, sighup, worker, cleanup>>

\* handle_client: the response of a replace that was persisted and swapped in
MgmtSucceed ==
    /\ mgmt # Idle /\ mgmt.pc = "stored"
    /\ mgmt' = Responding(MgmtResponse(TRUE, Some(Len(mgmt.new_res))))
    /\ UNCHANGED <<heap, published, leases, now, disk, v4io, v6io, sighup, worker, cleanup>>

NextConc ==
    \/ \E msg \in V4Discovering : WorkerLoad(msg)
    \/ WorkerByMac
    \/ WorkerByRelay
    \/ WorkerReply
    \/ WorkerSend
    \/ SighupRead
    \/ SighupNewDb
    \/ SighupLoadOne
    \/ SighupStore
    \/ \E l \in ConcLists : MgmtReplace(l)
    \/ \E ok \in BOOLEAN : MgmtCreate(ok)
    \/ \E ok \in BOOLEAN : MgmtWrite(ok)
    \/ \E ok \in BOOLEAN : MgmtSync(ok)
    \/ \E ok \in BOOLEAN : MgmtRename(ok)
    \/ MgmtNewDb
    \/ MgmtLoadOne
    \/ MgmtStore
    \/ MgmtSucceed
    \/ MgmtReply

SpecConc == InitConc /\ [][NextConc]_vars

----------------------------------------------------------------------------
(* What a handled DHCPv4 datagram looks like *)

V4Handled == v4io # None

V4In == Unwrap(v4io).msg

V4Out == Unwrap(v4io).resp

V4Replied(mtype) == V4Handled /\ V4Out.kind = "Message" /\ V4Out.message.opts["MessageType"] = mtype

\* a well-formed DHCPREQUEST from a six-byte chaddr
V4IsRequest ==
    /\ V4Handled
    /\ V4In.opcode = "BootRequest"
    /\ message_type(V4In) = Some("Request")
    /\ Len(V4In.chaddr) = 6

\* the table of the four variants
Selecting(m) ==
    /\ server_id(m) = Some(TheConfig.v4_server_id)
    /\ m.ciaddr = UNSPECIFIED
    /\ IsSome(requested_ip_addr(m))

InitReboot(m) ==
    ~IsSome(server_id(m)) /\ m.ciaddr = UNSPECIFIED /\ IsSome(requested_ip_addr(m))

Renew(m) ==
    /\ ~IsSome(server_id(m)) /\ ~IsSome(requested_ip_addr(m))
    /\ m.ciaddr # UNSPECIFIED /\ m.giaddr = UNSPECIFIED

Rebinding(m) ==
    /\ ~IsSome(server_id(m)) /\ ~IsSome(requested_ip_addr(m))
    /\ m.ciaddr # UNSPECIFIED /\ m.giaddr # UNSPECIFIED

FourVariants(m) == Selecting(m) \/ InitReboot(m) \/ Renew(m) \/ Rebinding(m)

RequestedAddress(m) ==
    IF Selecting(m) \/ InitReboot(m) THEN Unwrap(requested_ip_addr(m)) ELSE m.ciaddr

\* the reservations of the snapshot that lie inside a configured subnet
InSubnet(r) == \E i \in 1..Len(TheConfig.subnets_v4) : contains(TheConfig.subnets_v4[i].net, r.ipv4)

\* the reservation of the client of a request: the one under its chaddr, else
\* one under a key some configured extractor draws from its relay information
V4ClientReservations(m) ==
    IF IsSome(by_mac(Db, m.chaddr)) THEN {Unwrap(by_mac(Db, m.chaddr))}
    ELSE IF ~IsSome(relay_agent_information(m)) THEN {}
    ELSE LET relay == Unwrap(relay_agent_information(m))
             opt == Opt82(from_utf8(relay.circuit_id), from_utf8(relay.remote_id),
                          from_utf8(relay.subscriber_id))
         IN  {Db[k] : k \in {k \in DOMAIN Db :
                 \E i \in 1..Len(TheConfig.option82_extractors) :
                    LET e == Option82Extractor(TheConfig.option82_extractors[i], opt)
                    IN  IsSome(e) /\ k = Opt82Key(Unwrap(e))}}

----------------------------------------------------------------------------
(* C2 *)

----------------------------------------------------------------------------
(* C3 *)

\* C3: every DHCPNAK the handler produces has yiaddr 0.0.0.0
C3_NakYiaddrIsZero == V4Replied("Nak") => V4Out.message.yiaddr = UNSPECIFIED

\* a DHCPNAK for a client that asked, through a relay, for an address that is
\* not the reserved one
C3_Witness_Nak ==
    /\ V4Replied("Nak") /\ V4In.giaddr # UNSPECIFIED
    /\ RequestedAddress(V4In) # Unwrap(V4Out.reservation).ipv4

----------------------------------------------------------------------------
(* C4 *)

\* C4 as stated: the broadcast flag of a DHCPNAK is set if and only if the
\* request's giaddr is nonzero
C4_Stated_NakBroadcastIffRelayed ==
    V4Replied("Nak") => (broadcast(V4Out.message.flags) <=> V4In.giaddr # UNSPECIFIED)

\* C4: the broadcast flag of a DHCPNAK is set if and only if the request's
\* giaddr is nonzero or the request itself has the broadcast flag set
C4_NakBroadcastIffRelayedOrAsked ==
    V4Replied("Nak") =>
        (broadcast(V4Out.message.flags)
            <=> (V4In.giaddr # UNSPECIFIED \/ broadcast(V4In.flags)))

\* a DHCPNAK for a request that was not relayed and had the broadcast flag set
C4_Witness_UnrelayedBroadcastNak ==
    /\ V4Replied("Nak") /\ V4In.giaddr = UNSPECIFIED /\ broadcast(V4In.flags)
    /\ broadcast(V4Out.message.flags)

----------------------------------------------------------------------------
(* C5 *)

\* C5 as stated: every DHCPOFFER, DHCPACK and DHCPNAK carries the broadcast
\* flag of the request
C5_Stated_FlagPreserved ==
    (V4Replied("Offer") \/ V4Replied("Ack") \/ V4Replied("Nak"))
        => (broadcast(V4Out.message.flags) <=> broadcast(V4In.flags))

\* C5: every DHCPOFFER and DHCPACK carries the flags of the request; a DHCPNAK
\* carries them when the request's giaddr is zero, and carries them with the
\* broadcast flag set when the giaddr is nonzero
C5_FlagPreservedButRelayedNak ==
    /\ (V4Replied("Offer") \/ V4Replied("Ack")) => V4Out.message.flags = V4In.flags
    /\ V4Replied("Nak") =>
          V4Out.message.flags = IF V4In.giaddr = UNSPECIFIED THEN V4In.flags
                                ELSE set_broadcast(V4In.flags)

\* a relayed request without the broadcast flag, refused with the flag set
C5_Witness_RelayedNakGainsFlag ==
    /\ V4Replied("Nak") /\ V4In.giaddr # UNSPECIFIED
    /\ ~broadcast(V4In.flags) /\ broadcast(V4Out.message.flags)

----------------------------------------------------------------------------
(* C8 *)

\* C8 as stated: when a DHCPREQUEST is acknowledged for a reservation matched
\* through an Option82 extractor, the lease cache the handler leaves behind
\* maps the request's chaddr to that reservation's Option82
C8_Stated_AckBindsChaddr ==
    (V4Replied("Ack") /\ Unwrap(V4Out.reservation_match).method = "option82")
    => get_opt82_by_mac(leases, V4In.chaddr) = Unwrap(V4Out.reservation).option82

----------------------------------------------------------------------------
(* What a handled DHCPv6 datagram looks like *)

V6Handled == v6io # None

V6Relay == Unwrap(v6io).relay

\* the worker found a client message in the RelayForw and handed it to handle_message
V6Dispatched == V6Handled /\ IsSome(Unwrap(v6io).resp)

V6In == Unwrap(find_opt(V6Relay.opts, "RelayMsg")).data.msg

V6Out == Unwrap(Unwrap(v6io).resp)

V6Sent == Unwrap(v6io).sent

V6Resolved(ldb) ==
    v6_find_reservation(Db, ldb, TheConfig.option1837_extractors, TheConfig.mac_extractors,
                        V6Relay, V6In, Unwrap(client_id(V6In)))

IsIA(o) == o.code \in {"IANA", "IAPD"}

IAs(opts) == SelectSeq(opts, IsIA)

----------------------------------------------------------------------------
(* C1 *)

\* a DISCOVER or REQUEST from a six-byte chaddr for which the resolver finds
\* nothing in the snapshot
C1_V4Case(io) ==
    /\ io # None
    /\ Unwrap(io).msg.opcode = "BootRequest"
    /\ message_type(Unwrap(io).msg) \in {Some("Discover"), Some("Request")}
    /\ Len(Unwrap(io).msg.chaddr) = 6
    /\ ~IsSome(v4_find_reservation(Db, TheConfig.option82_extractors,
                                   Unwrap(io).msg.chaddr,
                                   relay_agent_information(Unwrap(io).msg)))

\* a Solicit or Request that passes the checks of its header and for which the
\* resolver, given the lease cache ldb, finds nothing in the snapshot
C1_V6Case(io, ldb) ==
    /\ io # None
    /\ IsSome(Unwrap(io).resp)
    /\ LET relay == Unwrap(io).relay
           msg == Unwrap(find_opt(relay.opts, "RelayMsg")).data.msg
       IN  /\ IsSome(client_id(msg))
           /\ \/ msg.msg_type = "Solicit" /\ ~IsSome(v6_server_id(msg))
              \/ msg.msg_type = "Request"
                    /\ v6_server_id(msg) = Some(TheConfig.v6_server_id)
           /\ ~IsSome(v6_find_reservation(Db, ldb, TheConfig.option1837_extractors,
                                          TheConfig.mac_extractors, relay, msg,
                                          Unwrap(client_id(msg))))

Silent == [kind |-> "NoResponse", reason |-> "NoReservation"]

\* C1: whenever a worker handles a DHCPv4 DISCOVER or REQUEST, or a DHCPv6
\* Solicit or Request, for which the resolver finds no reservation in the
\* current snapshot, the handler returns NoResponse(NoReservation), nothing
\* is sent, and the lease cache is left as it was
C1_NoReservationNoResponse ==
    [][/\ (v4io = None /\ C1_V4Case(v4io'))
            => (Unwrap(v4io').resp = Silent /\ leases' = leases)
       /\ (v6io = None /\ C1_V6Case(v6io', leases))
            => /\ Unwrap(v6io').resp = Some(Silent)
               /\ Unwrap(v6io').sent = None
               /\ leases' = leases]_vars

\* a Request at this server from a client nobody has a reservation for, after
\* some other client has got a lease
C1_Witness_UnreservedRequest ==
    /\ C1_V6Case(v6io, leases)
    /\ V6In.msg_type = "Request"
    /\ V6Out = Silent
    /\ DOMAIN leases.v4 # {}

----------------------------------------------------------------------------
(* C9 *)

\* the first MAC the configured extractors draw from a relayed message
RECURSIVE FirstMac(_, _, _)
FirstMac(names, relay_msg, msg) ==
    IF names = <<>> THEN None
    ELSE IF IsSome(MacExtractor_extract(Head(names), relay_msg, msg))
         THEN MacExtractor_extract(Head(names), relay_msg, msg)
         ELSE FirstMac(Tail(names), relay_msg, msg)

HasIaNa(opts, addr) ==
    \E i \in 1..Len(opts) :
        /\ opts[i].code = "IANA"
        /\ \E j \in 1..Len(opts[i].opts) :
              opts[i].opts[j].code = "IAAddr" /\ opts[i].opts[j].addr = addr

HasIaPd(opts, prefix) ==
    \E i \in 1..Len(opts) :
        /\ opts[i].code = "IAPD"
        /\ \E j \in 1..Len(opts[i].opts) :
              /\ opts[i].opts[j].code = "IAPrefix"
              /\ opts[i].opts[j].prefix_ip = prefix.addr
              /\ opts[i].opts[j].prefix_len = prefix.prefix_len

\* C9 as stated, read in the server's favour: the lease cache still holds the
\* DHCPv4 lease of a reservation r that was acknowledged to MAC m through an
\* Option82 extractor, m still has a binding, r is still in the snapshot; then
\* a Solicit that asks for an address and a prefix, has an unknown DUID, no
\* ServerId and no Option 18/37 reservation, and whose relay message yields m
\* (for which no reservation is keyed), is answered from r
C9_Stated_SolicitFollowsAck ==
    \A r \in DOMAIN leases.v4 :
        (/\ IsSome(leases.v4[r].option82)
         /\ leases.v4[r].mac \in DOMAIN leases.mac_to_opt82
         /\ by_opt82(Db, Unwrap(leases.v4[r].option82)) = Some(r)
         /\ V6Dispatched
         /\ V6In.msg_type = "Solicit"
         /\ IsSome(client_id(V6In))
         /\ ~IsSome(v6_server_id(V6In))
         /\ IsSome(ia_na(V6In)) /\ IsSome(ia_pd(V6In))
         /\ ~IsSome(by_duid(Db, Unwrap(client_id(V6In))))
         /\ ~IsSome(v6_find_reservation_by_relay_info(Db, TheConfig.option1837_extractors,
                                                      V6Relay))
         /\ FirstMac(TheConfig.mac_extractors, V6Relay, V6In) = Some(leases.v4[r].mac)
         /\ ~IsSome(by_mac(Db, leases.v4[r].mac)))
        => /\ V6Out.kind = "Message"
           /\ V6Out.reservation = Some(r)
           /\ HasIaNa(V6Out.message.opts, r.ipv6_na)
           /\ HasIaPd(V6Out.message.opts, r.ipv6_pd)

----------------------------------------------------------------------------
(* C10 *)

NoBindingIA(ia) ==
    /\ \E i \in 1..Len(ia.opts) :
          ia.opts[i].code = "StatusCode" /\ ia.opts[i].status = "NoBinding"
    /\ \A i \in 1..Len(ia.opts) :
          /\ ia.opts[i].code = "IAAddr"
                => ia.opts[i].valid_life = 0 /\ ia.opts[i].preferred_life = 0
          /\ ia.opts[i].code = "IAPrefix"
                => ia.opts[i].valid_lifetime = 0 /\ ia.opts[i].preferred_lifetime = 0

\* a Renew at this server, or a Rebind, with a ClientId, for which the
\* resolver finds nothing
C10_Case ==
    /\ V6Dispatched
    /\ IsSome(client_id(V6In))
    /\ \/ V6In.msg_type = "Renew" /\ v6_server_id(V6In) = Some(TheConfig.v6_server_id)
       \/ V6In.msg_type = "Rebind"
    /\ ~IsSome(V6Resolved(leases))

----------------------------------------------------------------------------
(* C6 *)

Complete(object) == object.index = load_reservations(ReservationDb_new, object.source)

\* C6: whatever the threads that reload and replace are doing, the published
\* snapshot is a completely built index, and from the moment a worker borrows
\* the published snapshot to the moment it has sent its reply the object it
\* borrowed is the one that was published when it began, unchanged and
\* complete; each lookup it has made returned what that snapshot holds, and
\* its reply is the handler's reply on that snapshot
C6_OneCompleteSnapshot ==
    /\ Complete(heap[published])
    /\ worker # Idle =>
        /\ worker.snap \in DOMAIN heap
        /\ heap[worker.snap] = worker.began
        /\ Complete(worker.began)
        /\ worker.pc \in {"by_relay", "reply", "send"}
              => worker.mac_hit = by_mac(worker.began.index, worker.msg.chaddr)
        /\ worker.pc \in {"reply", "send"}
              => WorkerFound(worker)
                    = v4_find_reservation(worker.began.index, TheConfig.option82_extractors,
                                          worker.msg.chaddr,
                                          relay_agent_information(worker.msg))
        /\ worker.pc = "send"
              => V4Out = handle_discover(worker.began.index, leases, TheConfig,
                                         worker.msg).resp

\* a worker between its two lookups, on a snapshot that has been replaced
\* since, while another thread is half way through building the next one
C6_Witness_LookupDuringRebuild ==
    /\ worker # Idle
    /\ worker.pc = "by_relay"
    /\ worker.snap # published
    /\ heap[published].source # worker.began.source
    /\ \E t \in {mgmt, sighup} :
          /\ t.pc = "load"
          /\ t.todo # << >>
          /\ Len(t.todo) < Len(t.new_res)

----------------------------------------------------------------------------
(* C7 *)

\* C7: a step of the management thread inside a replace command changes the
\* published snapshot only when reservations.json holds the new reservation
\* set and no temporary file is left, and publishes the index of that set;
\* a step that ends the command with success = false leaves the published
\* snapshot alone, and the command has not swapped it before
C7_PersistBeforeSwap ==
    [][(mgmt # Idle /\ mgmt.pc # "respond" /\ mgmt' # mgmt)
        => /\ published' # published
                => /\ disk.target = mgmt.new_res
                   /\ disk.temp = None
                   /\ heap'[published']
                        = DbObject(load_reservations(ReservationDb_new, mgmt.new_res),
                                   mgmt.new_res)
           /\ (mgmt' # Idle /\ mgmt'.pc = "respond" /\ ~mgmt'.response.success)
                => /\ published' = published
                   /\ heap'[published'] = heap[published]
                   /\ ~mgmt.swapped
           /\ (mgmt' # Idle /\ mgmt'.pc = "respond" /\ mgmt'.response.success)
                => mgmt.swapped /\ disk.target = mgmt.new_res]_vars

\* a replace that failed at the rename: the response says so, the temporary
\* file holds the new set, reservations.json and the snapshot hold the old one
C7_Witness_RenameFailed ==
    /\ mgmt # Idle
    /\ mgmt.pc = "respond"
    /\ ~mgmt.response.success
    /\ disk.temp # None
    /\ Unwrap(disk.temp).complete
    /\ Unwrap(disk.temp).content # disk.target
    /\ heap[published].source = disk.target

----------------------------------------------------------------------------
(* C11 *)

\* how many IA options of the given kind and IAID a list of options holds
CountIA(opts, code, id) ==
    Cardinality({i \in 1..Len(opts) : opts[i].code = code /\ opts[i].id = id})

IAKeys(opts) == {<<opts[i].code, opts[i].id>> : i \in {j \in 1..Len(opts) : IsIA(opts[j])}}

\* C11: every IA_NA and IA_PD of a DHCPv6 response carries the IAID of an IA
\* option of the same kind in the request, no IAID more often than the request
\* carries it; a response built from a reservation answers the first IA_NA and
\* the first IA_PD of the request under their IAIDs
C11_IaidEchoed ==
    (V6Dispatched /\ V6Out.kind = "Message") =>
        /\ \A k \in IAKeys(V6Out.message.opts) :
              /\ k \in IAKeys(V6In.opts)
              /\ CountIA(V6Out.message.opts, k[1], k[2]) <= CountIA(V6In.opts, k[1], k[2])
        /\ IsSome(V6Out.reservation) =>
              \A i \in 1..Len(IAs(V6Out.message.opts)) :
                 LET ia == IAs(V6Out.message.opts)[i]
                 IN  /\ IsSome(find_opt(V6In.opts, ia.code))
                     /\ ia.id = Unwrap(find_opt(V6In.opts, ia.code)).id

\* a Request answered from a reservation: the IA_NA under IAID 1, the IA_PD under 2
C11_Witness_RequestAnswered ==
    /\ V6Dispatched
    /\ V6In.msg_type = "Request"
    /\ V6Out.kind = "Message"
    /\ IsSome(V6Out.reservation)
    /\ IAKeys(V6Out.message.opts) = {<<"IANA", 1>>, <<"IAPD", 2>>}

----------------------------------------------------------------------------
(* C12 *)

\* the reason for which the header of a client message is rejected, if it is
C12_Rejection(msg) ==
    IF msg.msg_type \in {"Solicit", "Request", "Renew", "Rebind"} /\ ~IsSome(client_id(msg))
    THEN Some("NoClientId")
    ELSE IF msg.msg_type = "Solicit" /\ IsSome(v6_server_id(msg))
    THEN Some("UnexpectedServerId")
    ELSE IF msg.msg_type \in {"Request", "Renew"} /\ ~IsSome(v6_server_id(msg))
    THEN Some("NoServerId")
    ELSE IF msg.msg_type \in {"Request", "Renew"}
              /\ Unwrap(v6_server_id(msg)) # TheConfig.v6_server_id
    THEN Some("WrongServerId")
    ELSE None

C12_Case(io) ==
    /\ io # None
    /\ IsSome(Unwrap(io).resp)
    /\ IsSome(C12_Rejection(Unwrap(find_opt(Unwrap(io).relay.opts, "RelayMsg")).data.msg))

\* C12: a Solicit, Request, Renew or Rebind without a ClientId is discarded
\* with NoClientId; a Solicit with a ClientId and a ServerId with
\* UnexpectedServerId; a Request or Renew with a ClientId and no ServerId with
\* NoServerId, and with a ServerId other than the server's DUID with
\* WrongServerId; in each case nothing is sent and the lease cache is left as
\* it was
C12_BadHeaderDiscarded ==
    [][(v6io = None /\ C12_Case(v6io'))
          => /\ Unwrap(v6io').resp =
                    Some([kind |-> "NoResponse",
                          reason |-> Unwrap(C12_Rejection(
                              Unwrap(find_opt(Unwrap(v6io').relay.opts, "RelayMsg")).data.msg))])
             /\ Unwrap(v6io').sent = None
             /\ leases' = leases]_vars

\* a Renew from a client with a reservation that names another server, after
\* the client got its lease
C12_Witness_RenewAtOtherServer ==
    /\ C12_Case(v6io)
    /\ V6In.msg_type = "Renew"
    /\ C12_Rejection(V6In) = Some("WrongServerId")
    /\ IsSome(by_duid(Db, Unwrap(client_id(V6In))))
    /\ DOMAIN leases.v6 # {}

----------------------------------------------------------------------------
(* C13 *)

\* an IA_NA with the given IAID, the server's T1 and T2 and the given address
\* at the server's lifetimes
GrantsNa(opts, id, addr) ==
    \E i \in 1..Len(opts) :
        /\ opts[i].code = "IANA" /\ opts[i].id = id
        /\ opts[i].t1 = V6_RENEWAL_TIME /\ opts[i].t2 = V6_REBINDING_TIME
        /\ opts[i].opts = << [code |-> "IAAddr", addr |-> addr,
                               preferred_life |-> PREFERRED_LIFETIME,
                               valid_life |-> VALID_LIFETIME, opts |-> << >>] >>

GrantsPd(opts, id, prefix) ==
    \E i \in 1..Len(opts) :
        /\ opts[i].code = "IAPD" /\ opts[i].id = id
        /\ opts[i].t1 = V6_RENEWAL_TIME /\ opts[i].t2 = V6_REBINDING_TIME
        /\ opts[i].opts = << [code |-> "IAPrefix", preferred_lifetime |-> PREFERRED_LIFETIME,
                               valid_lifetime |-> VALID_LIFETIME,
                               prefix_len |-> prefix.prefix_len,
                               prefix_ip |-> prefix.addr, opts |-> << >>] >>

\* a Rebind with a ClientId and no ServerId from a client the resolver finds a
\* reservation for
C13_Case ==
    /\ V6Dispatched
    /\ V6In.msg_type = "Rebind"
    /\ IsSome(client_id(V6In))
    /\ ~IsSome(v6_server_id(V6In))
    /\ IsSome(V6Resolved(leases))

----------------------------------------------------------------------------
(* C14 *)

\* a Solicit with a ClientId and no ServerId that resolves to a reservation
C14_Case ==
    /\ V6Dispatched
    /\ V6In.msg_type = "Solicit"
    /\ IsSome(client_id(V6In))
    /\ ~IsSome(v6_server_id(V6In))
    /\ IsSome(V6Resolved(leases))

\* C14: a Solicit that resolves to a reservation is answered, if it carried
\* RapidCommit, with a Reply that contains RapidCommit and no Preference
\* option, and otherwise with an Advertise that contains Preference = 255
\* (and no RapidCommit); the answer is sent
C14_RapidCommitOrPreference ==
    C14_Case =>
        /\ V6Out.kind = "Message"
        /\ IsSome(V6Sent)
        /\ find_opt(Unwrap(V6Sent).opts, "RelayMsg")
                = Some(RelayMsg("Message", V6Out.message))
        /\ IF rapid_commit(V6In)
           THEN /\ V6Out.message.msg_type = "Reply"
                /\ IsSome(find_opt(V6Out.message.opts, "RapidCommit"))
                /\ ~IsSome(find_opt(V6Out.message.opts, "Preference"))
           ELSE /\ V6Out.message.msg_type = "Advertise"
                /\ find_opt(V6Out.message.opts, "Preference")
                        = Some([code |-> "Preference", value |-> 255])
                /\ ~IsSome(find_opt(V6Out.message.opts, "RapidCommit"))

\* a Solicit with RapidCommit answered with a Reply
C14_Witness_RapidCommitReply ==
    /\ C14_Case
    /\ rapid_commit(V6In)
    /\ V6Out.kind = "Message"
    /\ V6Out.message.msg_type = "Reply"

----------------------------------------------------------------------------
(* C15 *)

\* the datagram is a RelayForw whose RelayMsg option holds a client message,
\* not another relay message
C15_RelayedClientMessage(relay) ==
    /\ relay.msg_type = "RelayForw"
    /\ IsSome(find_opt(relay.opts, "RelayMsg"))
    /\ Unwrap(find_opt(relay.opts, "RelayMsg")).data.kind = "Message"

----------------------------------------------------------------------------
(* C16 *)

\* a SELECTING REQUEST (server_id present, ciaddr zero, requested_ip present)
\* that names another server
C16_Case(io) ==
    /\ io # None
    /\ Unwrap(io).msg.opcode = "BootRequest"
    /\ message_type(Unwrap(io).msg) = Some("Request")
    /\ IsSome(server_id(Unwrap(io).msg))
    /\ Unwrap(server_id(Unwrap(io).msg)) # TheConfig.v4_server_id
    /\ Unwrap(io).msg.ciaddr = UNSPECIFIED
    /\ IsSome(requested_ip_addr(Unwrap(io).msg))

\* the client of the request has a reservation inside a configured subnet
C16_Served(io) ==
    /\ Len(Unwrap(io).msg.chaddr) = 6
    /\ \E found \in {v4_find_reservation(Db, TheConfig.option82_extractors,
                                          Unwrap(io).msg.chaddr,
                                          relay_agent_information(Unwrap(io).msg))} :
          IsSome(found) /\ InSubnet(Unwrap(found)[1])

\* C16: a SELECTING REQUEST whose server_id differs from the configured
\* v4_server_id gets no response, neither ACK nor NAK, and leaves the lease
\* cache as it was; for a client that would otherwise be served the reason
\* is WrongServerId
C16_WrongServerIdSilent ==
    [][(v4io = None /\ C16_Case(v4io'))
          => /\ Unwrap(v4io').resp.kind = "NoResponse"
             /\ leases' = leases
             /\ C16_Served(v4io') => Unwrap(v4io').resp.reason = "WrongServerId"]_vars

\* a client that holds a lease selects another server's offer of its own address
C16_Witness_OtherServerSelected ==
    /\ C16_Case(v4io)
    /\ C16_Served(v4io)
    /\ V4Out.kind = "NoResponse"
    /\ \E r \in DOMAIN leases.v4 :
          leases.v4[r].mac = V4In.chaddr /\ requested_ip_addr(V4In) = Some(r.ipv4)

----------------------------------------------------------------------------
(* C17 *)

\* a DISCOVER or REQUEST from a six-byte chaddr that the resolver maps to a
\* reservation whose ipv4 is in none of the configured subnets
C17_Case(io) ==
    /\ io # None
    /\ Unwrap(io).msg.opcode = "BootRequest"
    /\ message_type(Unwrap(io).msg) \in {Some("Discover"), Some("Request")}
    /\ Len(Unwrap(io).msg.chaddr) = 6
    /\ \E found \in {v4_find_reservation(Db, TheConfig.option82_extractors,
                                          Unwrap(io).msg.chaddr,
                                          relay_agent_information(Unwrap(io).msg))} :
          IsSome(found) /\ ~InSubnet(Unwrap(found)[1])

\* C17: a DISCOVER or REQUEST whose resolved reservation has an ipv4 outside
\* every configured subnet gets NoResponse(NoServerSubnet), and the lease cache
\* is left as it was
C17_NoServerSubnet ==
    [][(v4io = None /\ C17_Case(v4io'))
          => /\ Unwrap(v4io').resp = [kind |-> "NoResponse", reason |-> "NoServerSubnet"]
             /\ leases' = leases]_vars

\* a REQUEST for the out-of-subnet address its reservation holds, from a client
\* whose relay information selects a reservation that could be served
C17_Witness_RequestOutOfSubnet ==
    /\ C17_Case(v4io)
    /\ message_type(V4In) = Some("Request")
    /\ requested_ip_addr(V4In) = Some(ResFar.ipv4)
    /\ relay_agent_information(V4In) = Some(RelayRemote)
    /\ IsSome(by_opt82(Db, Unwrap(ResRemote.option82)))
    /\ V4Out.kind = "NoResponse"

----------------------------------------------------------------------------
(* C18 *)

\* the Option82 the resolver builds from the relay-agent options of a datagram
C18_Option(m) ==
    Opt82(from_utf8(Unwrap(relay_agent_information(m)).circuit_id),
          from_utf8(Unwrap(relay_agent_information(m)).remote_id),
          from_utf8(Unwrap(relay_agent_information(m)).subscriber_id))

\* the positions of the configured extractors that both yield a key and find
\* a reservation under it
C18_Hits(m) ==
    IF ~IsSome(relay_agent_information(m)) THEN {}
    ELSE {i \in 1..Len(TheConfig.option82_extractors) :
            /\ IsSome(Option82Extractor(TheConfig.option82_extractors[i], C18_Option(m)))
            /\ IsSome(by_opt82(Db, Unwrap(Option82Extractor(
                                   TheConfig.option82_extractors[i], C18_Option(m)))))}

C18_First(m) == CHOOSE i \in C18_Hits(m) : \A j \in C18_Hits(m) : i <= j

\* the ladder as the claim states it
C18_Ladder(m) ==
    IF IsSome(by_mac(Db, m.chaddr))
    THEN Some(<<Unwrap(by_mac(Db, m.chaddr)), Match("mac", None)>>)
    ELSE IF C18_Hits(m) # {}
    THEN Some(<<Unwrap(by_opt82(Db, Unwrap(Option82Extractor(
                        TheConfig.option82_extractors[C18_First(m)], C18_Option(m))))),
                Match("option82", Some(TheConfig.option82_extractors[C18_First(m)]))>>)
    ELSE None

C18_Case ==
    /\ V4Handled
    /\ V4In.opcode = "BootRequest"
    /\ message_type(V4In) \in {Some("Discover"), Some("Request")}
    /\ Len(V4In.chaddr) = 6

\* C18: for the datagram a DHCPv4 handler was given, the resolver returns
\* by_mac(chaddr) whenever that lookup succeeds, whatever the relay-agent
\* options; otherwise the reservation found by the first Option82 extractor,
\* in configured order, that both yields a key and finds a reservation;
\* otherwise none; and the handler acts on that result
C18_ResolverLadder ==
    C18_Case =>
        /\ v4_find_reservation(Db, TheConfig.option82_extractors, V4In.chaddr,
                               relay_agent_information(V4In)) = C18_Ladder(V4In)
        /\ (V4Out = [kind |-> "NoResponse", reason |-> "NoReservation"])
              <=> ~IsSome(C18_Ladder(V4In))
        /\ V4Out.kind = "Message" =>
              /\ IsSome(C18_Ladder(V4In))
              /\ V4Out.reservation = Some(Unwrap(C18_Ladder(V4In))[1])
              /\ V4Out.reservation_match = Some(Unwrap(C18_Ladder(V4In))[2])

\* relay information with a circuit-id and a remote-id: circuit_and_remote
\* yields a key no reservation has, and remote_only, the next in order, wins
\* over circuit_only, which would find a reservation too
C18_Witness_SecondExtractorWins ==
    /\ C18_Case
    /\ ~IsSome(by_mac(Db, V4In.chaddr))
    /\ C18_Hits(V4In) = {2, 3}
    /\ V4Out.kind = "Message"
    /\ V4Out.reservation = Some(ResRemote)
    /\ V4Out.reservation_match = Some(Match("option82", Some("remote_only")))

----------------------------------------------------------------------------
(* C19 *)

\* some reservation the published snapshot was loaded from carries the Option82
C19_KeyOfSnapshot(opt) ==
    \E i \in 1..Len(heap[published].source) :
        heap[published].source[i].option82 = Some(opt)

\* the binding of MAC m is younger than opt82_max_age and its Option82 is a
\* key of the snapshot
C19_Keeps(opt82_max_age, m) ==
    /\ now - leases.mac_to_opt82[m].last_seen < opt82_max_age
    /\ C19_KeyOfSnapshot(leases.mac_to_opt82[m].opt82)

\* C19: when evict_expired(opt82_max_age, snapshot) has run on a cache nobody
\* else writes, the MAC -> Option82 bindings in it are those of before whose
\* last recording is less than opt82_max_age ago and whose Option82 is a key
\* of some reservation of the snapshot, each as it was
C19_BindingsAfterSweep ==
    [][\A age \in OptMaxAges :
          EvictExpired(age) =>
             /\ DOMAIN leases'.mac_to_opt82
                   = {m \in DOMAIN leases.mac_to_opt82 : C19_Keeps(age, m)}
             /\ \A m \in DOMAIN leases'.mac_to_opt82 :
                   leases'.mac_to_opt82[m] = leases.mac_to_opt82[m]]_vars

\* a lease that has not run out, recorded with an Option82 that is no longer a
\* key of the snapshot, and the MAC's binding is gone: it was pruned as orphaned
C19_Witness_OrphanPruned ==
    \E r \in DOMAIN leases.v4 :
        /\ IsSome(leases.v4[r].option82)
        /\ now = leases.v4[r].last_leased
        /\ ~C19_KeyOfSnapshot(Unwrap(leases.v4[r].option82))
        /\ leases.v4[r].mac \notin DOMAIN leases.mac_to_opt82

----------------------------------------------------------------------------
(* C20 *)

C20_Fresh(lease) == now - lease.last_leased < lease.valid

\* C20: when evict_expired has run on a cache nobody else writes, the v4 and
\* the v6 leases in it are those of before with now - last_leased < valid,
\* each as it was
C20_LeasesAfterSweep ==
    [][\A age \in OptMaxAges :
          EvictExpired(age) =>
             /\ DOMAIN leases'.v4 = {r \in DOMAIN leases.v4 : C20_Fresh(leases.v4[r])}
             /\ \A r \in DOMAIN leases'.v4 : leases'.v4[r] = leases.v4[r]
             /\ DOMAIN leases'.v6 = {r \in DOMAIN leases.v6 : C20_Fresh(leases.v6[r])}
             /\ \A r \in DOMAIN leases'.v6 : leases'.v6[r] = leases.v6[r]]_vars

\* the MAC's binding is still there but the DHCPv4 lease it was recorded with
\* has been swept, while a DHCPv6 lease of the same age, valid for longer, stays
C20_Witness_V4SweptV6Kept ==
    /\ DOMAIN leases.mac_to_opt82 # {}
    /\ DOMAIN leases.v4 = {}
    /\ \E r \in DOMAIN leases.v6 :
          /\ leases.v6[r].last_leased = 0
          /\ now - leases.v6[r].last_leased >= ADDRESS_LEASE_TIME
          /\ C20_Fresh(leases.v6[r])

----------------------------------------------------------------------------
(* C21: lookups in one index after a sequence of inserts *)

\* the keys insert files a reservation under
KeysOf(r) ==
    {MacKey(m) : m \in {r.mac[i] : i \in DOMAIN r.mac}}
    \cup {DuidKey(d) : d \in {r.duid[i] : i \in DOMAIN r.duid}}
    \cup {Opt82Key(o) : o \in {r.option82[i] : i \in DOMAIN r.option82}}

\* the last reservation of a sequence of inserts that carries key q
RECURSIVE MostRecent(_, _)
MostRecent(inserted, q) ==
    IF inserted = <<>> THEN None
    ELSE IF q \in KeysOf(inserted[Len(inserted)]) THEN Some(inserted[Len(inserted)])
    ELSE MostRecent(SubSeq(inserted, 1, Len(inserted) - 1), q)

\* C21 as stated: after any sequence of inserts into one index, a lookup of
\* a key returns the most recently inserted reservation that carries the key
\* (none exactly when no inserted reservation carries it) and raises no
\* error, and loading the same list a second time leaves the index as it was.
C21_Stated_LookupReturnsMostRecent ==
    /\ worker.pc = "looked" =>
          worker.got = Returned(MostRecent(heap[published].source, worker.key))
    /\ worker.pc = "loaded" => worker.before = Db

\* what remains of it: a lookup that returns, returns the most recently
\* inserted reservation that carries the key, and a second load changes nothing
C21_ReturnedIsMostRecent ==
    /\ (worker.pc = "looked" /\ ~worker.got.panicked) =>
          worker.got.found = MostRecent(heap[published].source, worker.key)
    /\ worker.pc = "loaded" => worker.before = Db

\* a key two inserted reservations carry is looked up and the later one is
\* returned
C21_Witness_LaterInsertWins ==
    /\ worker.pc = "looked"
    /\ ~worker.got.panicked
    /\ worker.got.found = Some(ResMoved)
    /\ \E i \in DOMAIN heap[published].source :
          /\ heap[published].source[i] # ResMoved
          /\ worker.key \in KeysOf(heap[published].source[i])

----------------------------------------------------------------------------
(* C22: no datagram ends a worker *)

\* C22 as stated: whatever datagram a worker receives (undecodable,
\* malformed, or one whose reply fails to encode or to send), the worker
\* neither terminates nor panics: it is back at recv_from afterwards.
C22_Stated_WorkerSurvives == worker.pc # "panicked"

\* what remains of it: a datagram that does not decode, and a reply that
\* fails to encode or to send, leave the worker at recv_from
C22_FaultsSurvived ==
    (/\ worker.pc = "panicked"
     /\ worker.turn # None)
        => /\ worker.turn[1].datagram.decodes
           /\ worker.turn[1].resp = None

----------------------------------------------------------------------------
(* C23: the length of a DUID *)

\* n bytes in hex, separated by sep
HexText(n, sep) ==
    IF n = 0 THEN <<>> ELSE [i \in 1..(3 * n - 1) |-> IF i % 3 = 0 THEN sep ELSE "a"]

\* texts a reservation file or ids.json may hold in a duid field
DuidTexts ==
    {HexText(n, sep) : n \in {0, 1, 2, 3, MAX_DUID_LEN, MAX_DUID_LEN + 1}, sep \in {":", "-"}}
    \cup {<<"a", "a", ":">>, <<":", "a", "a">>, <<"a", ":", "b">>, <<"g", "g", ":", "h", "h">>,
          <<" ", "A", "b", ":", "0", "1", " ">>, <<"a", "a", ":", "1", "0", "0">>,
          <<"a", "a", ":", "b", "b", "-", "c", "c">>, <<"+", "f", "-", "+", "f">>}

DuidLengthOk(duid) == 1 <= Len(duid) /\ Len(duid) <= MAX_DUID_LEN

\* C23 as stated: every DUID the server constructs, from the text of a
\* configuration file or from the ClientId option of a received message, is
\* between 1 and 130 bytes long.
C23_Stated_DuidLengthBounded ==
    /\ \A text \in DuidTexts :
          IsSome(Duid_try_from(text)) => DuidLengthOk(Unwrap(Duid_try_from(text)))
    /\ (V6Dispatched /\ V6In.msg_type \in {"Solicit", "Request", "Renew", "Rebind"}
            /\ IsSome(client_id(V6In)))
          => DuidLengthOk(Duid_from(Unwrap(client_id(V6In))))
    /\ \A r \in DOMAIN leases.v6 : DuidLengthOk(leases.v6[r].duid)

\* what remains of it: a DUID parsed from text is between 2 and 130 bytes long
C23_ParsedDuidBounded ==
    /\ \A text \in DuidTexts :
          IsSome(Duid_try_from(text))
            => /\ 2 <= Len(Unwrap(Duid_try_from(text)))
               /\ Len(Unwrap(Duid_try_from(text))) <= MAX_DUID_LEN
    /\ Duid_try_from(<<"a", "a", ":", "b", "b", ":", "c", "c">>) = Some(DuidA)
    /\ IsSome(Duid_try_from(HexText(MAX_DUID_LEN, ":")))
    /\ ~IsSome(Duid_try_from(HexText(MAX_DUID_LEN + 1, ":")))
    /\ ~IsSome(Duid_try_from(HexText(1, ":")))

----------------------------------------------------------------------------
(* C24: the header of a DHCPv4 response *)

\* C24: every DHCPv4 response (OFFER, ACK or NAK) has op = BootReply and
\* carries the xid, the chaddr and the giaddr of the request it answers
C24_ReplyHeaderEchoesRequest ==
    (V4Handled /\ V4Out.kind = "Message") =>
        /\ V4Out.message.opts["MessageType"] \in {"Offer", "Ack", "Nak"}
        /\ V4Out.message.opcode = "BootReply"
        /\ V4Out.message.xid = V4In.xid
        /\ V4Out.message.chaddr = V4In.chaddr
        /\ V4Out.message.giaddr = V4In.giaddr

\* a relayed request of a second exchange is ACKed
C24_Witness_RelayedAck ==
    /\ V4Replied("Ack")
    /\ V4In.xid = 8
    /\ V4In.giaddr = RelayAddr
    /\ V4In.chaddr = MacB

----------------------------------------------------------------------------
(* C25: the timers of a DHCPv4 lease *)

V4Timer(code) ==
    IF code \in DOMAIN V4Out.message.opts THEN Some(V4Out.message.opts[code]) ELSE None

\* C25: every DHCPv4 OFFER and ACK contains AddressLeaseTime = 3600 s,
\* Renewal (T1) = 1800 s and Rebinding (T2) = 3150 s
C25_OfferAndAckCarryTimers ==
    (V4Replied("Offer") \/ V4Replied("Ack")) =>
        /\ V4Timer("AddressLeaseTime") = Some(3600)
        /\ V4Timer("Renewal") = Some(1800)
        /\ V4Timer("Rebinding") = Some(3150)

\* a DISCOVER is answered with an OFFER that has all three timers
C25_Witness_OfferWithTimers ==
    /\ V4Replied("Offer")
    /\ V4In.opts["MessageType"] = "Discover"
    /\ {"AddressLeaseTime", "Renewal", "Rebinding"} \subseteq DOMAIN V4Out.message.opts

----------------------------------------------------------------------------
(* C26: the timers and lifetimes of a DHCPv6 binding *)

\* the response is an Advertise or a Reply built from a reservation
V6FromReservation ==
    /\ V6Dispatched
    /\ V6Out.kind = "Message"
    /\ V6Out.message.msg_type \in {"Advertise", "Reply"}
    /\ IsSome(V6Out.reservation)

IALifetimes(ia) ==
    {IF o.code = "IAAddr" THEN <<o.preferred_life, o.valid_life>>
                          ELSE <<o.preferred_lifetime, o.valid_lifetime>> :
        o \in {ia.opts[i] : i \in {j \in DOMAIN ia.opts :
                                     ia.opts[j].code \in {"IAAddr", "IAPrefix"}}}}

\* C26: every IA_NA and IA_PD built from a reservation in a DHCPv6 Advertise
\* or Reply carries T1 = 1800 and T2 = 2880, and its address or prefix carries
\* preferred lifetime 3600 and valid lifetime 7200, so that
\* T1 < T2 < preferred < valid
C26_ReservedIAsCarryLifetimes ==
    V6FromReservation =>
        \A i \in DOMAIN IAs(V6Out.message.opts) :
            LET ia == IAs(V6Out.message.opts)[i]
            IN  /\ ia.t1 = 1800
                /\ ia.t2 = 2880
                /\ IALifetimes(ia) = {<<3600, 7200>>}
                /\ \A l \in IALifetimes(ia) : ia.t1 < ia.t2 /\ ia.t2 < l[1] /\ l[1] < l[2]

\* a Reply built from a reservation carries both an IA_NA and an IA_PD
C26_Witness_ReplyWithBothIAs ==
    /\ V6FromReservation
    /\ V6Out.message.msg_type = "Reply"
    /\ {IAs(V6Out.message.opts)[i].code : i \in DOMAIN IAs(V6Out.message.opts)}
            = {"IANA", "IAPD"}

----------------------------------------------------------------------------
(* C27: the eviction task and the cache of the request handlers *)

\* the cache the handlers use holds a lease whose valid time has run out
ExpiredLeaseCached ==
    \/ \E r \in DOMAIN leases.v4 : now - leases.v4[r].last_leased >= leases.v4[r].valid
    \/ \E r \in DOMAIN leases.v6 : now - leases.v6[r].last_leased >= leases.v6[r].valid

\* C27 as stated: with the eviction task running, a lease of the cache the
\* request handlers use that has reached now - last_leased >= valid is
\* eventually removed from it, unless it is recorded again
C27_Stated_ExpiredLeaseEventuallyGone == ExpiredLeaseCached ~> ~ExpiredLeaseCached

\* what the cleanup thread does sweep: the copy it took when it was spawned,
\* which no handler writes to and which therefore stays as it was copied
C27_CopyHoldsNoLease == cleanup = LeaseDb_new

----------------------------------------------------------------------------
(* C28: classification of a DHCPv4 REQUEST and resolution *)

\* a SELECTING request that names another server
SelectingElsewhere(m) ==
    /\ IsSome(server_id(m)) /\ server_id(m) # Some(TheConfig.v4_server_id)
    /\ m.ciaddr = UNSPECIFIED
    /\ IsSome(requested_ip_addr(m))

\* a request with the shape of none of the four variants
NoVariant(m) ==
    /\ ~(IsSome(server_id(m)) /\ m.ciaddr = UNSPECIFIED /\ IsSome(requested_ip_addr(m)))
    /\ ~InitReboot(m) /\ ~Renew(m) /\ ~Rebinding(m)

V4Reason(reason) == V4Out = [kind |-> "NoResponse", reason |-> reason]

V4HasReservationAndSubnet ==
    LET found == v4_find_reservation(Db, TheConfig.option82_extractors, V4In.chaddr,
                                     relay_agent_information(V4In))
    IN  /\ IsSome(found)
        /\ IsSome(find_subnet(TheConfig.subnets_v4, Unwrap(found)[1].ipv4))

\* C28 as stated: a SELECTING request with a wrong server_id yields
\* WrongServerId and a request matching none of the four variants yields
\* Discarded, whether or not a reservation or a subnet exists for the client
C28_Stated_ClassifiedBeforeResolution ==
    V4IsRequest =>
        /\ SelectingElsewhere(V4In) => V4Reason("WrongServerId")
        /\ NoVariant(V4In) => V4Reason("Discarded")

\* what the handler does: the two reasons are given to a client for which a
\* reservation and its subnet were found, and to no other
C28_ClassifiedAfterResolution ==
    (V4IsRequest /\ (SelectingElsewhere(V4In) \/ NoVariant(V4In))) =>
        IF V4HasReservationAndSubnet
        THEN IF NoVariant(V4In) THEN V4Reason("Discarded") ELSE V4Reason("WrongServerId")
        ELSE V4Reason("NoReservation") \/ V4Reason("NoServerSubnet")

\* a SELECTING request for another server from a client without a reservation
C28_Witness_ElsewhereUnreserved ==
    V4IsRequest /\ SelectingElsewhere(V4In) /\ V4Reason("NoReservation")

----------------------------------------------------------------------------
(* C29: one event per request *)

\* the worker, with an event channel, has finished an iteration on a datagram
\* that decoded and that it handed to handle_message
LoopReported ==
    /\ worker.pc = "recv"
    /\ worker.event_channel
    /\ IsSome(worker.turn)
    /\ IsSome(Unwrap(worker.turn).resp)

LoopTurn == Unwrap(worker.turn)

\* C29 as stated: when an event channel is configured, the worker emits
\* exactly one event for every request datagram it receives: a success event
\* if a response was sent, otherwise a failure event carrying the reason
C29_Stated_OneEventPerRequest ==
    LoopReported =>
        /\ Len(LoopTurn.events) = 1
        /\ LoopTurn.sent => LoopTurn.events[1].success
        /\ ~LoopTurn.sent =>
              /\ ~LoopTurn.events[1].success
              /\ IsSome(LoopTurn.events[1].reason)

\* what the worker does: one failure event with the reason for a NoResponse,
\* one success event for a reply that send_to delivered, and no event for a
\* reply that could not be encoded or sent
C29_EventUnlessReplyLost ==
    LoopReported =>
        IF Unwrap(LoopTurn.resp).kind = "NoResponse"
        THEN LoopTurn.events = <<Event_failed(Unwrap(LoopTurn.resp).reason)>>
        ELSE IF LoopTurn.sent
             THEN Len(LoopTurn.events) = 1 /\ LoopTurn.events[1].success
             ELSE LoopTurn.events = <<>>

\* a reply was built and send_to failed: the request leaves no event
C29_Witness_ReplyLostUnreported ==
    /\ LoopReported
    /\ Unwrap(LoopTurn.resp).kind = "Message"
    /\ ~LoopTurn.sent
    /\ LoopTurn.events = <<>>

----------------------------------------------------------------------------
(* C30: the backoff on recv errors *)

\* the sleep of the n-th consecutive counted error under a schedule that
\* starts at first_ms, doubles, and is capped at one second
Schedule(first_ms, n) ==
    IF first_ms * (2 ^ (n - 1)) < 1000 THEN first_ms * (2 ^ (n - 1)) ELSE 1000

\* C30 as stated: on consecutive non-benign recv errors the worker sleeps
\* 10 ms after the first error, doubles the sleep after each further
\* consecutive error, never sleeps more than 1 s, and starts again from 10 ms
\* after any successful recv
C30_Stated_BackoffFromTen ==
    IsSome(worker.slept) => Unwrap(worker.slept) = Schedule(10, worker.error_count)

\* what the worker does: error_count is incremented before the sleep is
\* computed, so the schedule is 20, 40, ..., 640, 1000 ms, again from 20 ms
\* after a successful recv
C30_BackoffFromTwenty ==
    /\ IsSome(worker.slept) => Unwrap(worker.slept) = Schedule(20, worker.error_count)
    /\ IsSome(worker.turn) => worker.error_count = 0 /\ worker.slept = None

\* the first counted error after a datagram was received
C30_Witness_FirstErrorSleepsTwenty ==
    worker.error_count = 1 /\ worker.slept = Some(20)

\* the cap is reached
C30_Witness_Capped ==
    worker.error_count = MaxErrors /\ worker.slept = Some(MAX_BACKOFF_MS)

----------------------------------------------------------------------------
(* C31: the IAs of a Reply to Renew or Rebind *)

\* a Renew or Rebind answered from a reservation
V6Renewed ==
    /\ V6FromReservation
    /\ V6In.msg_type \in {"Renew", "Rebind"}

\* the Reply holds an IA of the kind and IAID of ia that carries the reserved
\* address or prefix with fresh lifetimes
Answered(ia) ==
    \E j \in DOMAIN V6Out.message.opts :
        \/ /\ ia.code = "IANA"
           /\ V6Out.message.opts[j] = reserved_ia_na(ia, Unwrap(V6Out.reservation))
        \/ /\ ia.code = "IAPD"
           /\ V6Out.message.opts[j] = reserved_ia_pd(ia, Unwrap(V6Out.reservation))

\* C31 as stated: for a Renew or Rebind from a client with a reservation,
\* every IA_NA and IA_PD option in the request has a corresponding IA in the
\* Reply (same IAID) carrying the reserved address or prefix with fresh
\* lifetimes, however many IA options the request holds
C31_Stated_EveryIAAnswered ==
    V6Renewed => \A i \in DOMAIN IAs(V6In.opts) : Answered(IAs(V6In.opts)[i])

\* what the handlers do: the first IA_NA and the first IA_PD of the request
\* are answered, and the Reply holds no other IA
C31_FirstOfEachKindAnswered ==
    V6Renewed =>
        /\ IsSome(ia_na(V6In)) => Answered(Unwrap(ia_na(V6In)))
        /\ IsSome(ia_pd(V6In)) => Answered(Unwrap(ia_pd(V6In)))
        /\ Len(IAs(V6Out.message.opts))
              = (IF IsSome(ia_na(V6In)) THEN 1 ELSE 0) + (IF IsSome(ia_pd(V6In)) THEN 1 ELSE 0)

\* a Renew with two IA_NA options is answered with one
C31_Witness_SecondIaNaDropped ==
    /\ V6Renewed
    /\ Len(IAs(V6In.opts)) = 3
    /\ Len(IAs(V6Out.message.opts)) = 2

----------------------------------------------------------------------------
(* C32: the MAC -> Option82 binding after lease_v4 *)

\* the Option82 handle_request hands to lease_v4 with the lease of an ACK
LeasedOpt82(io) ==
    LET key == v4_key(Unwrap(Unwrap(io).resp.reservation))
    IN  IF IsSome(key) /\ Unwrap(key)[1] = "Option82" THEN Some(Unwrap(key)[2]) ELSE None

\* the handler has just recorded a v4 lease with an Option82 present
LeasedWithOpt82 == V4Replied("Ack") /\ IsSome(LeasedOpt82(v4io))

\* C32 as stated: after a v4 lease is recorded for MAC m with an Option82
\* value o present, looking up the Option82 by MAC m returns o, whatever
\* binding (if any) was previously stored for m
C32_Stated_LookupReturnsLeased ==
    LeasedWithOpt82 => get_opt82_by_mac(leases, V4In.chaddr) = LeasedOpt82(v4io)

\* what lease_v4 does: a MAC without a binding is bound to o, a MAC with a
\* binding keeps the Option82 it was bound to and has its last_seen refreshed
C32_OccupiedBindingKept ==
    [][(v4io = None /\ v4io' # None /\ LeasedWithOpt82')
          => LET m == Unwrap(v4io').msg.chaddr
             IN  /\ m \in DOMAIN leases'.mac_to_opt82
                 /\ leases'.mac_to_opt82[m].last_seen = now
                 /\ leases'.mac_to_opt82[m].opt82 =
                        IF m \in DOMAIN leases.mac_to_opt82
                        THEN leases.mac_to_opt82[m].opt82
                        ELSE Unwrap(LeasedOpt82(v4io'))]_vars

\* a lease recorded with one Option82 for a MAC that stays bound to another
C32_Witness_BoundToEarlier ==
    /\ LeasedWithOpt82
    /\ IsSome(get_opt82_by_mac(leases, V4In.chaddr))
    /\ get_opt82_by_mac(leases, V4In.chaddr) # LeasedOpt82(v4io)

----------------------------------------------------------------------------
(* C33: memory and disk after concurrent reloads and replaces *)

\* no reload and no management command is under way
AllFinished == mgmt = Idle /\ sighup = Idle

\* C33 as stated: when a SIGHUP reload and management replace commands run
\* concurrently, once all of them have finished the published in-memory
\* snapshot equals the reservation set stored in reservations.json
C33_Stated_MemoryEqualsDisk ==
    AllFinished => heap[published].source = disk.target

\* the published snapshot is one that was read from or written to
\* reservations.json at some time: it is complete, if not current
C33_PublishedWasOnDisk ==
    AllFinished =>
        /\ heap[published].source \in ConcLists
        /\ heap[published].index = load_reservations(ReservationDb_new, heap[published].source)

\* a reload that read the file before a replace renamed its own over it, and
\* stored what it read after the replace had stored: memory holds the old set
C33_Witness_StaleReloadWins ==
    /\ AllFinished
    /\ Len(heap[published].source) < Len(disk.target)

----------------------------------------------------------------------------
(* C34: the sweep among reloads and handler writes *)

\* the MACs whose binding a step takes out of a cache
Unbound(before, after) == (DOMAIN before.mac_to_opt82) \ (DOMAIN after.mac_to_opt82)

\* C34 as stated: under any interleaving of the eviction sweep with reloads
\* and handler writes, a MAC -> Option82 binding is removed only if it is
\* older than opt82_max_age or its Option82 is absent from the snapshot that
\* is published at the moment of removal
C34_Stated_RemovedOnlyIfStaleOrOrphaned ==
    [][\A m \in Unbound(cleanup, cleanup') :
          \/ now - cleanup.mac_to_opt82[m].last_seen >= worker.opt82_max_age
          \/ ~has_opt82(Db, cleanup.mac_to_opt82[m].opt82)]_vars

\* what the sweep does: it judges orphans by the snapshot it borrowed when it
\* began, and it never touches the cache the handlers write to
C34_RemovedByBorrowedSnapshot ==
    [][/\ \A m \in Unbound(cleanup, cleanup') :
             \/ worker.started - cleanup.mac_to_opt82[m].last_seen >= worker.opt82_max_age
             \/ ~has_opt82(worker.reservations, cleanup.mac_to_opt82[m].opt82)
       /\ Unbound(leases, leases') = {}]_vars

\* the sweep has pruned, from the copy, a binding whose Option82 the published
\* snapshot holds and which the handlers' cache still holds
C34_Witness_PrunedThoughReserved ==
    /\ worker # Idle /\ worker.pc = "leases"
    /\ \E m \in (DOMAIN leases.mac_to_opt82) \ (DOMAIN cleanup.mac_to_opt82) :
          /\ has_opt82(Db, leases.mac_to_opt82[m].opt82)
          /\ now - leases.mac_to_opt82[m].last_seen < worker.opt82_max_age

----------------------------------------------------------------------------
(* C35: Rebind and Renew *)

\* the datagram a step of the worker takes up
V6InOf(io) == Unwrap(find_opt(Unwrap(io).relay.opts, "RelayMsg")).data.msg

\* the worker takes up a Rebind that carries a ClientId
RebindTaken(io) ==
    /\ io # None
    /\ IsSome(Unwrap(io).resp)
    /\ V6InOf(io).msg_type = "Rebind"
    /\ IsSome(client_id(V6InOf(io)))

NotServerId(o) == o.code # "ServerId"

\* the same options in a Renew
AsRenew(msg) == [msg EXCEPT !.msg_type = "Renew"]

\* the same options in a Renew addressed to this server
AsRenewHere(msg) ==
    [msg EXCEPT !.msg_type = "Renew",
                !.opts = opts_insert(SelectSeq(msg.opts, NotServerId),
                                     ServerIdOpt(TheConfig.v6_server_id))]

\* what handle_renew returns for msg on the snapshot and the cache of this state
RenewOutcome(io, msg) ==
    handle_renew(TheConfig, Db, leases, msg, Unwrap(io).relay, now)

\* C35 as stated: for every message that carries a ClientId and a ServerId, a
\* Rebind yields the same outcome (reply contents or discard reason) as a
\* Renew with the same options
C35_Stated_RebindAsRenew ==
    [][(v6io = None /\ RebindTaken(v6io') /\ IsSome(v6_server_id(V6InOf(v6io'))))
          => Unwrap(v6io').resp
                = Some(RenewOutcome(v6io', AsRenew(V6InOf(v6io'))).resp)]_vars

\* C35: a Rebind that carries a ClientId yields, whatever ServerId it carries
\* or none, the outcome (reply contents, lease recorded) of a Renew with the
\* same options addressed to this server; with this server's ServerId that
\* is the Renew with the same options
C35_RebindAsRenewAddressedHere ==
    [][(v6io = None /\ RebindTaken(v6io'))
          => /\ Unwrap(v6io').resp
                   = Some(RenewOutcome(v6io', AsRenewHere(V6InOf(v6io'))).resp)
             /\ leases' = RenewOutcome(v6io', AsRenewHere(V6InOf(v6io'))).leases
             /\ v6_server_id(V6InOf(v6io')) = Some(TheConfig.v6_server_id)
                   => AsRenewHere(V6InOf(v6io')) = AsRenew(V6InOf(v6io'))]_vars

\* a Rebind that names another server is answered from the client's reservation
C35_Witness_OtherServerAnswered ==
    /\ V6FromReservation
    /\ V6In.msg_type = "Rebind"
    /\ IsSome(v6_server_id(V6In))
    /\ v6_server_id(V6In) # Some(TheConfig.v6_server_id)

----------------------------------------------------------------------------
(* C36: the v6 lease a response leaves *)

\* the worker takes up a datagram and answers it from a reservation
AnsweredFromReservation(io) ==
    /\ io # None
    /\ IsSome(Unwrap(io).resp)
    /\ Unwrap(Unwrap(io).resp).kind = "Message"
    /\ IsSome(Unwrap(Unwrap(io).resp).reservation)

ReservationOf(io) == Unwrap(Unwrap(Unwrap(io).resp).reservation)

\* the cache holds a lease for r that was recorded at t for 7200 s
LeasedAt(ldb, r, t) ==
    /\ r \in DOMAIN ldb.v6
    /\ ldb.v6[r].last_leased = t
    /\ ldb.v6[r].valid = 7200

\* C36 as stated: every DHCPv6 response built from a reservation (Advertise
\* or Reply to Solicit, Reply to Request, Renew or Rebind) leaves a v6 lease
\* for that reservation in the cache with last_leased equal to the time of
\* handling and valid = 7200 s
C36_Stated_EveryResponseLeases ==
    [][(v6io = None /\ AnsweredFromReservation(v6io'))
          => LeasedAt(leases', ReservationOf(v6io'), now)]_vars

\* a Renew or Rebind that holds neither an IA_NA nor an IA_PD
NothingToRenew(msg) ==
    /\ msg.msg_type \in {"Renew", "Rebind"}
    /\ ~IsSome(ia_na(msg)) /\ ~IsSome(ia_pd(msg))

\* C36: every DHCPv6 response built from a reservation leaves a v6 lease for
\* that reservation in the cache with last_leased equal to the time of
\* handling and valid = 7200 s, except the Reply to a Renew or Rebind that
\* holds no IA_NA and no IA_PD, which leaves the cache as it was
C36_ResponseLeasesUnlessNothingToRenew ==
    [][(v6io = None /\ AnsweredFromReservation(v6io'))
          => IF NothingToRenew(V6InOf(v6io'))
             THEN leases' = leases
             ELSE LeasedAt(leases', ReservationOf(v6io'), now)]_vars

\* a lease first recorded at time 0 is recorded again an hour later
C36_Witness_LeasedAgainLater ==
    /\ V6FromReservation
    /\ V6In.msg_type = "Renew"
    /\ now = ADDRESS_LEASE_TIME
    /\ LeasedAt(leases, Unwrap(V6Out.reservation), now)
    /\ leases.v6[Unwrap(V6Out.reservation)].first_leased = now

----------------------------------------------------------------------------
(* C37: the SubnetMask of a DHCPv4 lease *)

\* the first configured subnet that contains ip
MatchingSubnet(ip) ==
    LET subnets == TheConfig.subnets_v4
        i == CHOOSE k \in 1..Len(subnets) :
                /\ contains(subnets[k].net, ip)
                /\ \A j \in 1..(k - 1) : ~contains(subnets[j].net, ip)
    IN  subnets[i]

V4Leased == V4Replied("Offer") \/ V4Replied("Ack")

\* C37 as stated: in every OFFER and ACK the SubnetMask option equals the
\* mask for the matching subnet's reply_prefix_len when that override is
\* configured, and the mask of the subnet's own prefix otherwise
C37_Stated_MaskFollowsOverride ==
    V4Leased =>
        V4Out.message.opts["SubnetMask"] = reply_netmask(MatchingSubnet(V4Out.message.yiaddr))

\* what the handlers send: the mask of the subnet's own prefix, whether or
\* not reply_prefix_len is configured
C37_MaskOfOwnPrefix ==
    V4Leased =>
        V4Out.message.opts["SubnetMask"] = netmask(MatchingSubnet(V4Out.message.yiaddr).net)

\* an ACK for an address in the subnet configured with reply_prefix_len = 32
\* carries 255.255.255.0
C37_Witness_OverrideIgnored ==
    /\ V4Replied("Ack")
    /\ MatchingSubnet(V4Out.message.yiaddr).reply_prefix_len = Some(32)
    /\ V4Out.message.opts["SubnetMask"] = <<255, 255, 255, 0>>

----------------------------------------------------------------------------
(* C38: the ladder of the DHCPv6 resolver *)

\* the positions of the Option 18/37 extractors that both yield a key and
\* find a reservation under it
C38_RelayHits(extractors, relay_msg) ==
    IF ~IsSome(option1837(relay_msg)) THEN {}
    ELSE {i \in 1..Len(extractors) :
            /\ IsSome(Option1837Extractor(extractors[i], Unwrap(option1837(relay_msg))))
            /\ IsSome(by_opt1837(Db, Unwrap(Option1837Extractor(
                                    extractors[i], Unwrap(option1837(relay_msg))))))}

\* the rung of one MAC extractor: by_mac(mac), and then the reservation keyed
\* by the Option82 the lease cache binds to that mac
C38_MacRung(name, relay_msg, msg) ==
    LET mac == MacExtractor_extract(name, relay_msg, msg)
    IN  IF ~IsSome(mac) THEN None
        ELSE IF IsSome(by_mac(Db, Unwrap(mac)))
        THEN Some(<<Unwrap(by_mac(Db, Unwrap(mac))), Match("mac", Some(name))>>)
        ELSE IF Unwrap(mac) \in DOMAIN leases.mac_to_opt82
                /\ IsSome(by_opt82(Db, leases.mac_to_opt82[Unwrap(mac)].opt82))
        THEN Some(<<Unwrap(by_opt82(Db, leases.mac_to_opt82[Unwrap(mac)].opt82)),
                    Match("option82", Some("lease_fallback"))>>)
        ELSE None

C38_MacHits(extractors, relay_msg, msg) ==
    {i \in 1..Len(extractors) : IsSome(C38_MacRung(extractors[i], relay_msg, msg))}

C38_First(hits) == CHOOSE i \in hits : \A j \in hits : i <= j

\* the ladder as the claim states it
C38_Ladder(opt1837_extractors, mac_extractors, relay_msg, msg) ==
    LET cid == Unwrap(client_id(msg))
        relay == C38_RelayHits(opt1837_extractors, relay_msg)
        macs == C38_MacHits(mac_extractors, relay_msg, msg)
    IN  IF IsSome(by_duid(Db, cid))
        THEN Some(<<Unwrap(by_duid(Db, cid)), Match("duid", None)>>)
        ELSE IF relay # {}
        THEN Some(<<Unwrap(by_opt1837(Db, Unwrap(Option1837Extractor(
                            opt1837_extractors[C38_First(relay)],
                            Unwrap(option1837(relay_msg)))))),
                    Match("option1837", Some(opt1837_extractors[C38_First(relay)]))>>)
        ELSE IF macs # {}
        THEN C38_MacRung(mac_extractors[C38_First(macs)], relay_msg, msg)
        ELSE None

\* configurations of the two extractor lists
C38_Opt1837Orders ==
    {<<"interface_only">>, <<"all_fields", "interface_only">>,
     <<"remote_only", "interface_only", "all_fields">>}

C38_MacOrders ==
    {<<"client_linklayer_address", "peer_addr_eui64", "duid">>,
     <<"duid", "peer_addr_eui64", "client_linklayer_address">>,
     <<"peer_addr_eui64">>}

\* C38: for the Solicit a handler was given, the DHCPv6 resolver returns
\* by_duid(client_id) if that lookup succeeds; otherwise the first Option 18/37
\* extractor match in configured order; otherwise, for each configured MAC
\* extractor in order, by_mac(mac) and then the reservation keyed by the
\* Option82 bound to that mac in the lease cache; a lower rung decides only if
\* every higher rung failed; and the handler answers from that result
C38_ResolverLadder ==
    V6Dispatched =>
        /\ \A e \in C38_Opt1837Orders, m \in C38_MacOrders :
              v6_find_reservation(Db, leases, e, m, V6Relay, V6In, Unwrap(client_id(V6In)))
                  = C38_Ladder(e, m, V6Relay, V6In)
        /\ LET found == C38_Ladder(TheConfig.option1837_extractors, TheConfig.mac_extractors,
                                   V6Relay, V6In)
           IN  /\ (V6Out = [kind |-> "NoResponse", reason |-> "NoReservation"])
                     <=> ~IsSome(found)
               /\ V6Out.kind = "Message" =>
                     /\ IsSome(found)
                     /\ V6Out.reservation = Some(Unwrap(found)[1])
                     /\ V6Out.reservation_match = Some(Unwrap(found)[2])

\* the relay reports MacA, which has no reservation but was ACKed behind the
\* port, and the peer address carries MacB, which has a reservation: the
\* binding of the first extractor's MAC wins over by_mac of the second's
C38_Witness_FallbackBeforeNextMac ==
    /\ V6Dispatched
    /\ ~IsSome(by_duid(Db, Unwrap(client_id(V6In))))
    /\ C38_RelayHits(TheConfig.option1837_extractors, V6Relay) = {}
    /\ MacExtractor_extract("client_linklayer_address", V6Relay, V6In) = Some(MacA)
    /\ MacExtractor_extract("peer_addr_eui64", V6Relay, V6In) = Some(MacB)
    /\ ~IsSome(by_mac(Db, MacA))
    /\ by_mac(Db, MacB) = Some(ResFar)
    /\ V6Out.kind = "Message"
    /\ V6Out.reservation = Some(ResRemote)
    /\ V6Out.reservation_match = Some(Match("option82", Some("lease_fallback")))

----------------------------------------------------------------------------
(* C39: the queue of the analytics channel *)

\* C39 as stated: event emission never queues more than a fixed bound of
\* events: with the consumer stalled the channel fills up and further events
\* are dropped, so the queue stays below the number of events the worker emits
C39_Stated_QueueBounded == Len(worker.queue) < MaxQueued

\* what the channel does: every event a worker emits is appended to the queue
\* whatever its length, none is dropped, and the worker is back at recv_from
C39_EveryEventQueued ==
    [][(IsSome(worker'.turn) /\ Len(worker'.queue) >= Len(worker.queue))
          => /\ worker'.queue = worker.queue \o Unwrap(worker'.turn).events
             /\ worker'.pc \in {"recv", "panicked"}]_vars

\* the consumer has taken nothing and every event emitted so far is queued
C39_Witness_QueueKeepsGrowing ==
    /\ Len(worker.queue) = MaxQueued
    /\ IsSome(worker.turn)
    /\ Len(Unwrap(worker.turn).events) = 1
    /\ worker.queue[MaxQueued] = Unwrap(worker.turn).events[1]
    /\ worker.pc = "recv"

----------------------------------------------------------------------------
(* C40: what request handling leaves alone *)

\* the worker takes up a DHCPv4 datagram and answers it with a DHCPACK
Acked(io) ==
    /\ io # None
    /\ Unwrap(io).resp.kind = "Message"
    /\ Unwrap(io).resp.message.opts["MessageType"] = "Ack"

\* C40: request handling modifies the lease cache only on a DHCPv4 ACK and on
\* DHCPv6 responses built from a reservation: handling a DISCOVER (OFFER), a
\* REQUEST that ends in NAK, a Renew or Rebind answered with NoBinding, or any
\* request that ends in NoResponse leaves all v4 leases, v6 leases and
\* MAC -> Option82 bindings unchanged; a DHCPv4 datagram never touches the v6
\* leases, and a DHCPv6 datagram touches nothing but them
C40_CacheWrittenOnlyOnAckOrReservation ==
    [][/\ (v4io = None /\ v4io' # None) =>
             /\ ~Acked(v4io') => leases' = leases
             /\ leases'.v6 = leases.v6
       /\ (v6io = None /\ v6io' # None) =>
             /\ ~AnsweredFromReservation(v6io') => leases' = leases
             /\ leases'.v4 = leases.v4
             /\ leases'.mac_to_opt82 = leases.mac_to_opt82]_vars

\* a REQUEST for another address than the reserved one is answered with a NAK
\* while the cache holds the lease and the binding of an earlier ACK
C40_Witness_NakKeepsCache ==
    /\ V4Replied("Nak")
    /\ DOMAIN leases.v4 # {}
    /\ DOMAIN leases.mac_to_opt82 # {}
    /\ Unwrap(V4Out.reservation) \in DOMAIN leases.v4

============================================================================
